---- MODULE Spec2Model ----
(***************************************************************************)
(* Document-processing pipeline of study-sidekick.                         *)
(*                                                                         *)
(* The model composes                                                      *)
(*   - the job initiator and the polling controller of                     *)
(*     src/unnamed/part_011 (handleProcessTextDocument,                    *)
(*     handleGetDocumentStatus, lines 396-511), and                        *)
(*   - the chunk worker of src/api/src/handlers/documentHandler.ts         *)
(*     (retry, _processChunkEmbedding, handleProcessChunk, lines 94-222).  *)
(* The controller's dispatch logic is the same in both files               *)
(* (documentHandler.ts:308-336, part_011:466-479).                         *)
(*                                                                         *)
(* Every await of a handler on the shared store is a separate step; the    *)
(* steps of a handler that touch no shared state are folded into the       *)
(* neighbouring step.  The job store and the chunk store are taken to      *)
(* answer every request (their error results are not modelled); the        *)
(* embedding provider and the worker trigger request may fail.             *)
(*                                                                         *)
(* Spec runs the handlers under NumPollers concurrent status polls.        *)
(* ClientSpec and WorkerSpec run them under one client that polls again    *)
(* and again.                                                              *)
(* ClientSpec records the status responses it receives (lastResp);        *)
(* WorkerSpec records the answers of the worker invocations (lastWorker).  *)
(*                                                                         *)
(* StatusSpec runs one client against either deployment of the status      *)
(* handler: the one with a job store (part_011:438-511, with text jobs and *)
(* with job rows left by the deprecated extraction stage) and the one      *)
(* without (documentHandler.ts:231-352, where the chunk rows are all there *)
(* is; jobStatus stays "NONE").  It records what each step answers.        *)
(*                                                                         *)
(* The library functions the pipeline rests on are modelled on their own:  *)
(* chunkText (src/api/src/lib/textChunker.ts) as its loop, one iteration   *)
(* a step, under ChunkSpec; stratifiedSample (src/unnamed/part_007) as an  *)
(* operator applied in one step, under SampleSpec.  Their inputs are drawn *)
(* by the initial states of these specifications.                          *)
(***************************************************************************)
EXTENDS Integers, Sequences, FiniteSets, TLC

\* ---------------------------------------------------------------- bounds
MaxChunks == 4        \* chunkText(text).length ranges over 0..MaxChunks
MaxInvoked == 2       \* worker requests in flight per chunk
NumPollers == 2       \* concurrent status polls
MaxTextLen == 5       \* chunkText: text.length ranges over 0..MaxTextLen
MaxChunkSize == 3     \* chunkText: chunkSize ranges over 1..MaxChunkSize
MaxOverlap == 4       \* chunkText: overlap ranges over 0..MaxOverlap
MaxExtraIter == 2     \* chunkText: iterations followed beyond text.length
MaxItems == 4         \* stratifiedSample: at most MaxItems items
MaxK == 3             \* stratifiedSample: k ranges over 1..MaxK
MaxTarget == 5        \* stratifiedSample: targetCount ranges over 0..MaxTarget
MaxVectors == 4       \* kMeansClustering: at most MaxVectors vectors
MaxCoord == 3         \* kMeansClustering: coordinates range over 0..MaxCoord
MaxDocs == 3          \* queryRelevantChunks: at most MaxDocs document ids
MaxMatch == 5         \* queryRelevantChunks: matchCount ranges over 1..MaxMatch
MaxStored == 3        \* queryRelevantChunks: matching chunks stored per document
MaxSettled == 196     \* chunks of a large document that completed earlier
MaxJobChunks == 3     \* handleStart: chunkText(text).length ranges over 0..MaxJobChunks
MaxBatchSize == 2     \* handleBatch: batchSize ranges over 0..MaxBatchSize
MaxRows == 2          \* handleBatch: rows stored per chunk of the job's document
MaxInits == 3         \* getPipeline: initialisations started in one server instance
NumCallers == 3       \* createEmbedding: calls that can be waiting at once

\* ---------------------------------------------------- program constants
MAX_CONCURRENT_WORKERS == 3
retries == 3
delay == 1000
COOLDOWN_THRESHOLD == 5000
API_DELAY_BUFFER == 500
BATCH_SIZE == 100

ChunkIds == 1..MaxChunks
Pollers == 1..NumPollers

VARIABLES
    jobStatus,          \* document_jobs.status of the document, "NONE" before the insert
    processing_status,  \* documents.processing_status per chunk id, "ABSENT" before the insert
    embedding,          \* documents.embedding per chunk id: "null" or "vector"
    createPc,           \* position of handleProcessTextDocument
    nChunks,            \* chunks.length in handleProcessTextDocument
    insertIdx,          \* loop index i of the batch insert
    blob,               \* the uploaded file at path in the storage bucket: "stored"
                        \* or "removed"
    settled,            \* the number of further chunk rows of the document, beyond
                        \* ChunkIds, that are COMPLETED already (0: ChunkIds are all)
    invoked,            \* per chunk: process-chunk requests delivered, claim not yet run
    holders,            \* per chunk: invocations past a successful claim, not yet finished
    ppc,                \* per poller: position in handleGetDocumentStatus
    counts,             \* per poller: the counts row it read
    lastWorker,         \* observed: what the worker invocation that ended in the latest
                        \* step did and answered (NoRun: none ended in it)
    lastResp,           \* observed: the last status response the client received
    chunker,            \* chunkText: its parameters text, chunkSize, overlap, its
                        \* locals i and chunks, and its position pc
    sampler,            \* stratifiedSample: its parameters items, clusterAssignments,
                        \* targetCount, k, its result, and its position pc
    kmeans,             \* kMeansClustering: its parameters vectors, k, maxIterations,
                        \* its locals centroids, assignments, iter, its result and pc
    retrieval,           \* queryRelevantChunks over several documents: its parameters,
                        \* the per-document results so far, its result and pc
    retrier,             \* retry(fn): what each call of fn does, and what the run comes to
                        \* (its kind, calls and sleeps), and its position pc
    batchJob,            \* the client-driven batch variant: the job cache, the chunk rows
                        \* inserted batch by batch, and the batch request being served
    embedder            \* the embedding service: the stored pipeline promise, every
                        \* initialisation started, and the createEmbedding calls waiting

vars == <<jobStatus, processing_status, embedding, createPc, nChunks, insertIdx, blob,
          settled,
          invoked, holders, ppc, counts, lastWorker, lastResp, chunker, sampler,
          kmeans, retrieval,
          retrier,
          batchJob,
          embedder>>

\* ------------------------------------------------------------ null values
NoRun == [result |-> "none", code |-> 0, calls |-> 0, errs |-> "none", nerr |-> 0, long |-> FALSE]
NoCounts == [total_chunks |-> 0, pending_chunks |-> 0, processing_chunks |-> 0,
             completed_chunks |-> 0, failed_chunks |-> 0]
NoRetrier == [outs |-> <<>>, kind |-> "none", calls |-> 0, sleeps |-> <<>>,
              error |-> <<>>, pc |-> "idle"]
NoBatchJob == [jobCache |-> {}, started |-> FALSE, chunks |-> 0,
               rows |-> [i \in 1..MaxJobChunks |-> 0],
               pc |-> "idle", jobId |-> 0, hasStartIndex |-> FALSE, startIndex |-> 0,
               batchSize |-> 0, found |-> FALSE, before |-> [i \in 1..MaxJobChunks |-> 0],
               embedded |-> {}, code |-> 0, message |-> ""]
NoEmbedder == [pipelinePromise |-> 0, promises |-> <<>>,
               awaiting |-> [c \in 1..NumCallers |-> 0],
               result |-> [c \in 1..NumCallers |-> "none"]]
NoResp == [code |-> 0, isReady |-> FALSE, isFinished |-> FALSE, hasFailed |-> FALSE,
           progress |-> 0, message |-> ""]

jobVars == <<jobStatus, createPc, nChunks, insertIdx, blob, settled>>
chunkVars == <<processing_status, embedding>>
workerVars == <<invoked, holders>>
pollVars == <<ppc, counts>>
obsVars == <<lastWorker, lastResp>>
libVars == <<chunker, sampler, kmeans, retrieval, retrier, batchJob, embedder>>
pipelineVars == <<jobVars, chunkVars, workerVars, pollVars, obsVars>>

\* no call of chunkText / stratifiedSample in progress
NoChunker == [text |-> <<>>, chunkSize |-> 1, overlap |-> 0, i |-> 0, chunks |-> <<>>,
              pc |-> "idle"]
NoSampler == [items |-> <<>>, clusterAssignments |-> <<>>, targetCount |-> 0, k |-> 1,
              result |-> <<>>, pc |-> "idle"]
\* no call of kMeansClustering / queryRelevantChunks in progress
NoKMeans == [vectors |-> <<>>, k |-> 0, maxIterations |-> 0, centroids |-> <<>>,
             assignments |-> <<>>, iter |-> 0, rounds |-> 0, result |-> <<>>, pc |-> "idle"]
NoRetrieval == [documentIds |-> <<>>, matchCount |-> 0, stored |-> <<>>, requested |-> <<>>,
                found |-> <<>>, failed |-> {}, chunks |-> <<>>, result |-> <<>>,
                pc |-> "idle"]

\* ------------------------------------------------------------- chunk store
WithStatus(s) == {c \in ChunkIds : processing_status[c] = s}

\* get_document_processing_status(doc_id): the counts by status of the document's rows
get_document_processing_status ==
    [total_chunks |-> Cardinality({c \in ChunkIds : processing_status[c] # "ABSENT"}) + settled,
     pending_chunks |-> Cardinality(WithStatus("PENDING")),
     processing_chunks |-> Cardinality(WithStatus("PROCESSING")),
     completed_chunks |-> Cardinality(WithStatus("COMPLETED")) + settled,
     failed_chunks |-> Cardinality(WithStatus("FAILED"))]

Min(a, b) == IF a < b THEN a ELSE b

\* select id ... eq(processing_status, PENDING).limit(n): no ORDER BY, so any n of
\* the PENDING rows (all of them when there are fewer)
SelectPending(n) ==
    {S \in SUBSET WithStatus("PENDING") :
        Cardinality(S) = Min(n, Cardinality(WithStatus("PENDING")))}

\* mutant: Math.floor in place of Math.round
RoundPercentDown(num, den) == (100 * num) \div den

\* Math.round(x) for x = 100 * num / den, den > 0: the nearest integer, halves up
\* (the quotient is a double in the code; it rounds to the same integer for the
\* totals that occur here: up to MaxChunks + 1, and MaxSettled finished chunks
\* or more of a larger total)
RoundPercent(num, den) == (200 * num + den) \div (2 * den)

\* ------------------------------------------------------- embedding provider
\* One createEmbedding call ends with a vector or throws an error.  An error is
\* described by what retry() reads of it: error.status, whether error.message is
\* non-empty, and the "Please retry in <num>s" / "Please retry in <num>ms" hint
\* of the message (unit "none": the message carries no such hint).
Vector == [ok |-> TRUE, status |-> 0, hasMessage |-> FALSE, unit |-> "none", num |-> 0]
ProviderError(status, hasMessage, unit, num) ==
    [ok |-> FALSE, status |-> status, hasMessage |-> hasMessage, unit |-> unit, num |-> num]

ProviderOutcomes ==
    {Vector,
     ProviderError(0, TRUE, "none", 0),        \* invalid vector shape, empty response, ...
     ProviderError(429, TRUE, "s", 1),
     ProviderError(429, TRUE, "s", 30),
     ProviderError(429, TRUE, "ms", 4500),
     ProviderError(429, TRUE, "ms", 4501),
     ProviderError(429, TRUE, "none", 0),
     ProviderError(429, FALSE, "none", 0)}

Pow2(i) == IF i = 0 THEN 1 ELSE IF i = 1 THEN 2 ELSE IF i = 2 THEN 4 ELSE 8

isRateLimitError(error) == error.status = 429 /\ error.hasMessage

\* apiWaitTime in ms, -1 for null: the seconds pattern is tried first
apiWaitTime(error) ==
    IF error.unit = "s" THEN error.num * 1000
    ELSE IF error.unit = "ms" THEN error.num
    ELSE -1

backoffDelay(error, i) ==
    IF isRateLimitError(error) /\ apiWaitTime(error) # -1
    THEN apiWaitTime(error) + API_DELAY_BUFFER
    ELSE delay * Pow2(i)

\* mutant: retry() without the cooldown check
CoolDownNever(error, i) == FALSE

\* the 5-second threshold of retry(): the required cooldown is too long
CoolDownRequired(error, i) ==
    isRateLimitError(error) /\ backoffDelay(error, i) > COOLDOWN_THRESHOLD

\* mutant: a loop that gives up one attempt early
AttemptsLeftButOne(i) == i < retries - 1

\* the loop bound of retry(): the attempts i = 0 .. retries-1
AttemptsLeft(i) == i < retries

\* retry(fn), the loop from attempt i on; outs[i+1] is what the call of attempt i
\* does.  kind "value": returned; "cooldown": RateLimitCoolDownError thrown;
\* "error": lastError thrown.  sleeps are the delays slept, in order.
RECURSIVE retryFrom(_, _, _)
retryFrom(outs, i, sleeps) ==
    IF ~AttemptsLeft(i)
    THEN [kind |-> "error", calls |-> i, sleeps |-> sleeps, error |-> outs[i]]
    ELSE LET error == outs[i + 1] IN
         IF error.ok
         THEN [kind |-> "value", calls |-> i + 1, sleeps |-> sleeps, error |-> error]
         ELSE IF CoolDownRequired(error, i)
         THEN [kind |-> "cooldown", calls |-> i + 1, sleeps |-> sleeps, error |-> error]
         ELSE retryFrom(outs, i + 1,
                        IF i < retries - 1
                        THEN Append(sleeps, backoffDelay(error, i))
                        ELSE sleeps)

retry(outs) == retryFrom(outs, 0, <<>>)

\* the errors thrown by the calls retry(outs) made: all of them rate-limit
\* signals (status 429 with a message), none of them, or both kinds
ErrorsSeen(outs, calls) == {outs[k] : k \in {j \in 1..calls : ~outs[j].ok}}
ErrorClass(outs, calls) ==
    LET E == ErrorsSeen(outs, calls) IN
    IF E = {} THEN "none"
    ELSE IF \A e \in E : e.status = 429 /\ e.hasMessage THEN "rate"
    ELSE IF \A e \in E : ~(e.status = 429 /\ e.hasMessage) THEN "other"
    ELSE "mixed"

\* how many of the calls retry(outs) made threw
FailedCalls(outs, calls) == Cardinality({j \in 1..calls : ~outs[j].ok})

\* some call of the run threw a rate-limit error whose required cooldown
\* (backoffDelay) is above the threshold
LongWaitSeen(outs, calls) ==
    \E k \in 1..calls :
        /\ ~outs[k].ok
        /\ outs[k].status = 429 /\ outs[k].hasMessage
        /\ backoffDelay(outs[k], k - 1) > COOLDOWN_THRESHOLD

\* -------------------------------------------------------------- chunk worker
\* mutant: the claim update filters by id alone
ClaimMatchesAnyStatus(c) == processing_status[c] # "ABSENT"

\* the conditional part of the claim update: .eq('processing_status', 'PENDING')
ClaimMatches(c) == processing_status[c] = "PENDING"

\* handleProcessChunk up to the claim (documentHandler.ts:192-212): the request
\* for chunk c arrives and the conditional update runs.
ProcessChunkClaim(c) ==
    /\ invoked[c] > 0
    /\ invoked' = [invoked EXCEPT ![c] = @ - 1]
    /\ IF ClaimMatches(c)
       THEN /\ processing_status' = [processing_status EXCEPT ![c] = "PROCESSING"]
            /\ holders' = [holders EXCEPT ![c] = @ + 1]
       ELSE UNCHANGED <<processing_status, holders>>
    /\ UNCHANGED <<embedding, jobVars, pollVars>>

\* zero rows claimed: 200 "Chunk already processed or in progress", and return
\* before _processChunkEmbedding is called
ClaimAnswer(c) ==
    IF ClaimMatches(c) THEN NoRun
    ELSE [result |-> "noop", code |-> 200, calls |-> 0, errs |-> "none", nerr |-> 0, long |-> FALSE]

\* what one run of retry(() => createEmbedding(...)) can come to: its kind, the
\* number of provider calls it made, the class of the errors they threw and
\* whether one of them asked for a long cooldown, over every behaviour of the
\* provider during the run
RetryRuns ==
    {[kind |-> retry(outs).kind, calls |-> retry(outs).calls,
      errs |-> ErrorClass(outs, retry(outs).calls),
      nerr |-> FailedCalls(outs, retry(outs).calls),
      long |-> LongWaitSeen(outs, retry(outs).calls)] :
        outs \in [1..retries -> ProviderOutcomes]}

\* mutant: the success update stores the embedding and leaves the status
FinalStatusEmbeddingOnly(kind) ==
    IF kind = "value" THEN "PROCESSING"
    ELSE IF kind = "cooldown" THEN "PENDING"
    ELSE "FAILED"

\* what _processChunkEmbedding writes for the result of retry(): the success
\* update, or the update of its catch block
FinalStatus(kind) ==
    IF kind = "value" THEN "COMPLETED"
    ELSE IF kind = "cooldown" THEN "PENDING"
    ELSE "FAILED"

\* mutant: the catch block of _processChunkEmbedding swallows every error
WorkerCodeSwallowed(kind) == 200

\* the status code handleProcessChunk answers with after _processChunkEmbedding:
\* 500 only if it threw
WorkerCode(kind) == IF kind = "error" THEN 500 ELSE 200

WorkerResult(kind) ==
    IF kind = "value" THEN "completed"
    ELSE IF kind = "cooldown" THEN "requeued"
    ELSE "failed"

\* _processChunkEmbedding and the rest of handleProcessChunk
\* (documentHandler.ts:143-185, 214-221) for an invocation that claimed chunk c
\* and whose retry() run is r.  The updates are by id alone.
ProcessChunkEmbedding(c, r) ==
    /\ holders[c] > 0
    /\ processing_status' = [processing_status EXCEPT ![c] = FinalStatus(r.kind)]
    /\ embedding' = IF r.kind = "value"
                    THEN [embedding EXCEPT ![c] = "vector"]
                    ELSE embedding
    /\ holders' = [holders EXCEPT ![c] = @ - 1]
    /\ UNCHANGED <<invoked, jobVars, pollVars>>

EmbeddingAnswer(r) ==
    [result |-> WorkerResult(r.kind), code |-> WorkerCode(r.kind),
     calls |-> r.calls, errs |-> r.errs, nerr |-> r.nerr, long |-> r.long]

\* ------------------------------------------------------------ job initiator
\* handleProcessTextDocument (part_011:396-432) in its awaits: the job row is
\* inserted with status PENDING_EMBEDDING and the text is chunked into n chunks;
\* the chunk rows are inserted batch by batch; the 202 response carries the
\* freshly generated documentId, which no client knows before.
InsertJob(maxN) ==
    /\ createPc = "start"
    /\ \E n \in 0..maxN :
         /\ nChunks' = n
         /\ insertIdx' = 0
    /\ jobStatus' = "PENDING_EMBEDDING"
    /\ createPc' = "chunked"
    /\ UNCHANGED <<blob, settled, chunkVars, workerVars, pollVars>>

\* the rows chunksToInsert.slice(i, i + BATCH_SIZE), as chunk ids
Batch(i) == {c \in ChunkIds : i < c /\ c <= Min(i + BATCH_SIZE, nChunks)}

\* the status a chunk row is inserted with
InsertedStatus == "PENDING"

InsertBatch ==
    /\ createPc = "chunked"
    /\ nChunks > 0
    /\ insertIdx < nChunks
    /\ processing_status' = [c \in ChunkIds |->
            IF c \in Batch(insertIdx) THEN InsertedStatus ELSE processing_status[c]]
    /\ embedding' = [c \in ChunkIds |->
            IF c \in Batch(insertIdx) THEN "null" ELSE embedding[c]]
    /\ insertIdx' = insertIdx + BATCH_SIZE
    /\ UNCHANGED <<jobStatus, createPc, nChunks, blob, settled, workerVars, pollVars>>

\* handleProcessDocument removes the uploaded file before it answers
\* (documentHandler.ts:260, 279); handleProcessTextDocument has no file
JobAccepted ==
    /\ createPc = "chunked"
    /\ ~(nChunks > 0 /\ insertIdx < nChunks)
    /\ createPc' = "done"
    /\ blob' = IF jobStatus = "NONE" THEN "removed" ELSE blob
    /\ UNCHANGED <<jobStatus, nChunks, insertIdx, settled, chunkVars, workerVars, pollVars>>

\* ------------------------------------------------------ polling controller
Response(ready, finished, failed, percent) ==
    [code |-> 200, isReady |-> ready, isFinished |-> finished,
     hasFailed |-> failed, progress |-> percent, message |-> ""]
\* the body with its message property
Message(body, text) == [body EXCEPT !.message = text]

\* mutant: only PENDING_EXTRACTION is taken as an extraction stage
StoredStageResponsePendingOnly(status) ==
    IF status = "PENDING_EXTRACTION"
    THEN Message(Response(FALSE, FALSE, FALSE, 0), "Initializing...")
    ELSE IF status = "COMPLETED"
    THEN Message(Response(TRUE, TRUE, FALSE, 100), "Processing Complete.")
    ELSE IF status = "FAILED"
    THEN Message(Response(FALSE, TRUE, TRUE, 100), "Processing Failed.")
    ELSE Message([NoResp EXCEPT !.code = 500], "Unhandled job status")

\* the answers of handleGetDocumentStatus that are read off the stored job status
\* (part_011:447-450, 495-505)
StoredStageResponse(status) ==
    IF status \in {"PENDING_EXTRACTION", "EXTRACTING"}
    THEN Message(Response(FALSE, FALSE, FALSE, 0), "Initializing...")
    ELSE IF status = "COMPLETED"
    THEN Message(Response(TRUE, TRUE, FALSE, 100), "Processing Complete.")
    ELSE IF status = "FAILED"
    THEN Message(Response(FALSE, TRUE, TRUE, 100), "Processing Failed.")
    ELSE Message([NoResp EXCEPT !.code = 500], "Unhandled job status")

\* mutant: the handler goes on to the embedding stage whatever the stored status
GetDocumentStatusReadJobAnyStage(p) ==
    /\ createPc = "done"
    /\ ppc[p] = "idle"
    /\ ppc' = [ppc EXCEPT ![p] = "embedding"]
    /\ UNCHANGED <<counts, jobVars, chunkVars, workerVars>>

\* handleGetDocumentStatus, first await (part_011:443-450, 495-505): read the job
\* row; every status but PENDING_EMBEDDING is answered at once.
GetDocumentStatusReadJob(p) ==
    /\ createPc = "done"
    /\ ppc[p] = "idle"
    /\ ppc' = [ppc EXCEPT ![p] = IF jobStatus = "PENDING_EMBEDDING"
                                 THEN "embedding" ELSE "idle"]
    /\ UNCHANGED <<counts, jobVars, chunkVars, workerVars>>

\* second await (part_011:456-464): the counts; an empty document is completed.
GetDocumentStatusCounts(p) ==
    /\ ppc[p] = "embedding"
    /\ LET row == get_document_processing_status IN
       IF row.total_chunks = 0
       THEN /\ jobStatus' = "COMPLETED"
            /\ ppc' = [ppc EXCEPT ![p] = "idle"]
            /\ UNCHANGED counts
       ELSE /\ counts' = [counts EXCEPT ![p] = row]
            /\ ppc' = [ppc EXCEPT ![p] = "counted"]
            /\ UNCHANGED jobStatus
    /\ UNCHANGED <<createPc, nChunks, insertIdx, blob, settled, chunkVars, workerVars>>

\* mutant: the controller takes every slot to be free
availableSlotsIgnoringProcessing(row) == MAX_CONCURRENT_WORKERS

\* const availableSlots = MAX_CONCURRENT_EMBEDDING_WORKERS - processing_chunks
availableSlots(row) == MAX_CONCURRENT_WORKERS - row.processing_chunks

\* mutant: a controller that stops dispatching once a chunk has failed
HasCapacityUnlessFailed(row) ==
    availableSlots(row) > 0 /\ row.pending_chunks > 0 /\ row.failed_chunks = 0

\* the condition under which the controller selects chunks to dispatch
HasCapacity(row) == availableSlots(row) > 0 /\ row.pending_chunks > 0

\* the sets of chunks the controller may trigger a worker for, given the counts
\* row it read earlier and the chunk rows as they are now
ChunksToProcess(row) ==
    IF HasCapacity(row) THEN SelectPending(availableSlots(row)) ELSE {{}}

\* mutant: chunks in progress count as finished
finishedCountWithProcessing(row) == row.completed_chunks + row.processing_chunks

\* mutant: a job is finished as soon as no chunk is waiting
isFinishedNoPending(row) == row.pending_chunks = 0

\* mutant: only completed chunks finish a job
isFinishedAllCompleted(row) == row.completed_chunks = row.total_chunks

\* mutant: the final job status ignores failures
finalStatusCompleted(row) == "COMPLETED"

\* mutant: a finished job is reported ready whether or not chunks failed
EmbeddingStageResponseReady(row) ==
    IF row.completed_chunks + row.failed_chunks = row.total_chunks
    THEN Response(TRUE, TRUE, row.failed_chunks > 0, 100)
    ELSE Response(FALSE, FALSE, row.failed_chunks > 0,
                  RoundPercent(row.completed_chunks + row.failed_chunks, row.total_chunks))

\* part_011:481-492: the locals the answer and the job update are computed from
finishedCount(row) == row.completed_chunks + row.failed_chunks
hasFailed(row) == row.failed_chunks > 0
progress(row) ==
    IF row.total_chunks > 0
    THEN RoundPercent(finishedCount(row), row.total_chunks)
    ELSE 100
isFinished(row) == finishedCount(row) = row.total_chunks
finalStatus(row) == IF hasFailed(row) THEN "FAILED" ELSE "COMPLETED"
EmbeddingStageResponse(row) ==
    IF isFinished(row)
    THEN Message(Response(~hasFailed(row), TRUE, hasFailed(row), 100),
                 "Processing " \o finalStatus(row) \o ".")
    ELSE Message(Response(FALSE, FALSE, hasFailed(row), progress(row)),
                 "Generating Embeddings...")

\* mutant: the controller itself marks the chunks it selects as PROCESSING
GetDocumentStatusDispatchMarking(p) ==
    /\ ppc[p] = "counted"
    /\ LET row == counts[p] IN
       /\ \E sel \in ChunksToProcess(row) :
            /\ processing_status' = [c \in ChunkIds |->
                    IF c \in sel THEN "PROCESSING" ELSE processing_status[c]]
            /\ \E delivered \in SUBSET sel :
                /\ \A c \in delivered : invoked[c] < MaxInvoked
                /\ invoked' = [c \in ChunkIds |->
                        IF c \in delivered THEN invoked[c] + 1 ELSE invoked[c]]
       /\ jobStatus' = IF row.completed_chunks + row.failed_chunks = row.total_chunks
                       THEN (IF row.failed_chunks > 0 THEN "FAILED" ELSE "COMPLETED")
                       ELSE jobStatus
    /\ ppc' = [ppc EXCEPT ![p] = "idle"]
    /\ counts' = [counts EXCEPT ![p] = NoCounts]
    /\ UNCHANGED <<createPc, nChunks, insertIdx, blob, settled, embedding, holders>>

\* third part (part_011:466-492): select PENDING chunks, fire one trigger request
\* per chunk without awaiting it (a request may fail to start its worker: the
\* .catch only logs), then write the final job status if finished.
GetDocumentStatusDispatch(p) ==
    /\ ppc[p] = "counted"
    /\ LET row == counts[p] IN
       /\ \E sel \in ChunksToProcess(row) :
            \E delivered \in SUBSET sel :
                /\ \A c \in delivered : invoked[c] < MaxInvoked
                /\ invoked' = [c \in ChunkIds |->
                        IF c \in delivered THEN invoked[c] + 1 ELSE invoked[c]]
       /\ jobStatus' = IF isFinished(row) THEN finalStatus(row) ELSE jobStatus
    /\ ppc' = [ppc EXCEPT ![p] = "idle"]
    /\ counts' = [counts EXCEPT ![p] = NoCounts]
    /\ UNCHANGED <<createPc, nChunks, insertIdx, blob, settled, chunkVars, holders>>

GetDocumentStatus(p) ==
    GetDocumentStatusReadJob(p) \/ GetDocumentStatusCounts(p)
        \/ GetDocumentStatusDispatch(p)

\* the response the step of poller p sends, NoResp if the handler goes on
StatusAnswer(p) ==
    IF ppc[p] = "idle"
    THEN IF jobStatus = "PENDING_EMBEDDING" THEN NoResp
         ELSE StoredStageResponse(jobStatus)
    ELSE IF ppc[p] = "embedding"
    THEN IF get_document_processing_status.total_chunks = 0
         THEN Message(Response(TRUE, TRUE, FALSE, 100), "Processing Complete.")
         ELSE NoResp
    ELSE EmbeddingStageResponse(counts[p])

\* ------------------------------------------- controller without a job store
\* handleProcessDocument (documentHandler.ts:231-288) up to chunkText: no job row
\* is written; the chunk rows are inserted by the same batch loop (InsertBatch)
\* and the documentId is answered at the end (JobAccepted), also when there are
\* no chunks (documentHandler.ts:259-262).
ProcessDocumentChunk(maxN) ==
    /\ createPc = "start"
    /\ \E n \in 0..maxN :
         /\ nChunks' = n
         /\ insertIdx' = 0
    /\ createPc' = "chunked"
    /\ UNCHANGED <<jobStatus, blob, settled, chunkVars, workerVars, pollVars>>

\* documentHandler.ts:338-346: the locals of the answer
documentIsFinished(row) == row.total_chunks > 0 /\ finishedCount(row) = row.total_chunks
documentIsReady(row) == documentIsFinished(row) /\ ~hasFailed(row)
documentProgress(row) ==
    IF row.total_chunks > 0
    THEN RoundPercent(finishedCount(row), row.total_chunks)
    ELSE IF documentIsFinished(row) THEN 100 ELSE 0
DocumentStatusResponse(row) ==
    Response(documentIsReady(row), documentIsFinished(row), hasFailed(row),
             documentProgress(row))

\* handleGetDocumentStatus of documentHandler.ts:294-352, first await: the counts
DocumentStatusCounts(p) ==
    /\ createPc = "done"
    /\ ppc[p] = "idle"
    /\ counts' = [counts EXCEPT ![p] = get_document_processing_status]
    /\ ppc' = [ppc EXCEPT ![p] = "counted"]
    /\ UNCHANGED <<jobVars, chunkVars, workerVars>>

\* the rest (documentHandler.ts:308-346): select, trigger, answer; nothing is written
DocumentStatusDispatch(p) ==
    /\ ppc[p] = "counted"
    /\ \E sel \in ChunksToProcess(counts[p]) :
         \E delivered \in SUBSET sel :
             /\ \A c \in delivered : invoked[c] < MaxInvoked
             /\ invoked' = [c \in ChunkIds |->
                     IF c \in delivered THEN invoked[c] + 1 ELSE invoked[c]]
    /\ ppc' = [ppc EXCEPT ![p] = "idle"]
    /\ counts' = [counts EXCEPT ![p] = NoCounts]
    /\ UNCHANGED <<jobVars, chunkVars, holders>>

DocumentStatus(p) == DocumentStatusCounts(p) \/ DocumentStatusDispatch(p)

\* the response the step of poller p sends, NoResp if the handler goes on
DocumentStatusAnswer(p) ==
    IF ppc[p] = "counted" THEN DocumentStatusResponse(counts[p]) ELSE NoResp

\* a job row written by the deprecated extraction stage ("old jobs",
\* part_011:446-450): it has no chunk rows yet
LegacyStages == {"PENDING_EXTRACTION", "EXTRACTING"}
LegacyJob ==
    /\ createPc = "start"
    /\ jobStatus' \in LegacyStages
    /\ createPc' = "done"
    /\ UNCHANGED <<nChunks, insertIdx, blob, settled, chunkVars, workerVars, pollVars>>

\* the step of poller p is a dispatch in which the controller had capacity and
\* PENDING chunks to select, and no trigger request reached a worker: the .catch
\* of each fetch logged a failure
AllTriggersFailed(p) ==
    /\ ppc[p] = "counted"
    /\ ppc'[p] = "idle"
    /\ HasCapacity(counts[p])
    /\ WithStatus("PENDING") # {}
    /\ invoked' = invoked
Untriggered == [NoRun EXCEPT !.result = "untriggered"]

\* ---------------------------------------------------------------- chunkText
\* src/api/src/lib/textChunker.ts:4-14.  A text is a sequence of characters.
Chars == {"a", "b"}
Texts == UNION {[1..n -> Chars] : n \in 0..MaxTextLen}

\* the call chunkText(text, chunkSize, overlap) at its first loop test
ChunkTextCall(text, chunkSize, overlap) ==
    [text |-> text, chunkSize |-> chunkSize, overlap |-> overlap,
     i |-> 0, chunks |-> <<>>, pc |-> "loop"]

\* mutant: slice with its end index included
sliceInclusive(text, start, end) == SubSeq(text, start + 1, Min(end + 1, Len(text)))

\* text.slice(start, end) for 0 <= start, end <= text.length
slice(text, start, end) == SubSeq(text, start + 1, end)

\* mutant: the cursor moves on by a whole window
AdvanceWholeWindow(i, chunkSize, overlap) == i + chunkSize

\* i += chunkSize - overlap
Advance(i, chunkSize, overlap) == i + chunkSize - overlap

\* one iteration of the while loop (lines 8-11)
ChunkTextBody(frame) ==
    LET end == Min(frame.i + frame.chunkSize, Len(frame.text))
        next == Advance(frame.i, frame.chunkSize, frame.overlap)
    IN  [frame EXCEPT !.chunks = Append(@, slice(frame.text, frame.i, end)),
                      !.i = IF next < 0 THEN end ELSE next]

\* the loop followed for at most this many iterations
IterCap == MaxTextLen + MaxExtraIter

ChunkTextIterate ==
    /\ chunker.pc = "loop"
    /\ chunker.i < Len(chunker.text)
    /\ Len(chunker.chunks) < IterCap
    /\ chunker' = ChunkTextBody(chunker)

ChunkTextReturn ==
    /\ chunker.pc = "loop"
    /\ ~(chunker.i < Len(chunker.text))
    /\ chunker' = [chunker EXCEPT !.pc = "returned"]

\* chunkText as a function, for calls whose loop ends
RECURSIVE ChunkTextRun(_)
ChunkTextRun(frame) ==
    IF frame.i < Len(frame.text) THEN ChunkTextRun(ChunkTextBody(frame)) ELSE frame.chunks
chunkText(text, chunkSize, overlap) == ChunkTextRun(ChunkTextCall(text, chunkSize, overlap))

\* ------------------------------------------------------- stratifiedSample
\* Math.ceil(a / b) for a >= 0, b >= 1, and Math.max
CeilDiv(a, b) == (a + b - 1) \div b
Max(a, b) == IF a >= b THEN a ELSE b

\* the items are chunks, told apart by their ids; the caller passes them in any
\* order, with one cluster number in 0..k-1 for each
ItemIds == 1..MaxItems
ItemLists ==
    UNION {{items \in [1..n -> ItemIds] :
                \A a, b \in 1..n : a # b => items[a] # items[b]} : n \in 0..MaxItems}
Assignments(n, k) == [1..n -> 0..(k - 1)]

StratifiedSampleCall(items, clusterAssignments, targetCount, k) ==
    [items |-> items, clusterAssignments |-> clusterAssignments,
     targetCount |-> targetCount, k |-> k, result |-> <<>>, pc |-> "called"]

\* clusters[c] after the grouping loop: items[i], i ascending, with
\* clusterAssignments[i] = c
RECURSIVE GroupInto(_, _, _, _)
GroupInto(cluster, items, clusterAssignments, c) ==
    IF items = <<>> THEN cluster
    ELSE GroupInto(IF Head(clusterAssignments) = c
                       THEN Append(cluster, Head(items)) ELSE cluster,
                   Tail(items), Tail(clusterAssignments), c)
Clusters(items, clusterAssignments, k) ==
    [c \in 0..(k - 1) |-> GroupInto(<<>>, items, clusterAssignments, c)]

samplesPerClusterOfTarget(targetCount, k) == targetCount
samplesPerCluster(targetCount, k) == Max(1, CeilDiv(targetCount, k))

\* the inner loop: for (i = 0; i < samplesToTake && result.length < targetCount; i++)
RECURSIVE TakeFromCluster(_, _, _, _, _)
TakeFromCluster(result, cluster, i, samplesToTake, targetCount) ==
    IF i < samplesToTake /\ Len(result) < targetCount
        THEN TakeFromCluster(Append(result, cluster[i + 1]), cluster, i + 1,
                             samplesToTake, targetCount)
        ELSE result

\* the outer loop: for (const cluster of clusters), from cluster c on
RECURSIVE SampleClusters(_, _, _, _, _)
SampleClusters(result, clusters, c, k, targetCount) ==
    IF c >= k THEN result
    ELSE SampleClusters(
             TakeFromCluster(result, clusters[c], 0,
                             Min(samplesPerCluster(targetCount, k), Len(clusters[c])),
                             targetCount),
             clusters, c + 1, k, targetCount)

stratifiedSample(items, clusterAssignments, targetCount, k) ==
    IF Len(items) = 0 \/ targetCount = 0 THEN <<>>
    ELSE LET result == SampleClusters(<<>>, Clusters(items, clusterAssignments, k),
                                      0, k, targetCount)
         IN  slice(result, 0, Min(targetCount, Len(result)))

StratifiedSampleReturn ==
    /\ sampler.pc = "called"
    /\ sampler' = [sampler EXCEPT
           !.result = stratifiedSample(sampler.items, sampler.clusterAssignments,
                                       sampler.targetCount, sampler.k),
           !.pc = "returned"]

\* ------------------------------------------------------- kMeansClustering
\* the vectors have one dimension and a whole coordinate; a centroid is kept
\* as the sum s and the number n of the vectors it is the mean of
VectorLists == UNION {[1..m -> 0..MaxCoord] : m \in 0..MaxVectors}

\* euclideanDistance(v, c1) < euclideanDistance(v, c2): in one dimension
\* |v - c1.s/c1.n| < |v - c2.s/c2.n|
euclideanDistanceLess(v, c1, c2) ==
    LET Abs(x) == IF x < 0 THEN -x ELSE x
    IN  Abs(v * c1.n - c1.s) * c2.n < Abs(v * c2.n - c2.s) * c1.n

\* the cluster numbers the search for the nearest centroid can end with: the
\* first of the centroids at the least distance; where the least distance is
\* shared and one of the means sharing it is no binary fraction, the rounding
\* of the division decides between them
NearestClusters(v, centroids) ==
    LET K == 1..Len(centroids)
        Least == {i \in K : \A j \in K : ~euclideanDistanceLess(v, centroids[j], centroids[i])}
        Exact(c) == \E e \in {1, 2, 4, 8} : (c.s * e) % c.n = 0
        First == CHOOSE i \in Least : \A j \in Least : i <= j
    IN  IF \A i \in Least : Exact(centroids[i]) THEN {First - 1}
        ELSE {i - 1 : i \in Least}

\* a mean taken over all the vectors, whatever their cluster
RECURSIVE computeMeanOfAll(_, _, _, _)
computeMeanOfAll(vectors, assignments, c, acc) ==
    IF vectors = <<>> THEN acc
    ELSE computeMeanOfAll(Tail(vectors), Tail(assignments), c,
                          [s |-> acc.s + Head(vectors), n |-> acc.n + 1])
\* computeMean(vectors.filter((_, i) => assignments[i] === c)), added to acc
RECURSIVE computeMean(_, _, _, _)
computeMean(vectors, assignments, c, acc) ==
    IF vectors = <<>> THEN acc
    ELSE computeMean(Tail(vectors), Tail(assignments), c,
                     IF Head(assignments) = c
                         THEN [s |-> acc.s + Head(vectors), n |-> acc.n + 1]
                         ELSE acc)

OneVectorPerClusterAbove(vectors, k) == k > Len(vectors)
\* if (k >= vectors.length): one vector per cluster
OneVectorPerCluster(vectors, k) == k >= Len(vectors)

\* the guards, the choice of k distinct vectors as centroids (by Math.random:
\* any k distinct indices in any order) and the first assignments
KMeansBegin ==
    /\ kmeans.pc = "called"
    /\ LET m == Len(kmeans.vectors)
       IN  IF m = 0 \/ kmeans.k <= 0
               THEN kmeans' = [kmeans EXCEPT !.result = <<>>, !.pc = "returned"]
           ELSE IF OneVectorPerCluster(kmeans.vectors, kmeans.k)
               THEN kmeans' = [kmeans EXCEPT !.result = [i \in 1..m |-> i - 1],
                                             !.pc = "returned"]
           ELSE \E idx \in [1..kmeans.k -> 1..m] :
                   /\ \A a, b \in 1..kmeans.k : a # b => idx[a] # idx[b]
                   /\ kmeans' = [kmeans EXCEPT
                          !.centroids = [j \in 1..kmeans.k |->
                                            [s |-> kmeans.vectors[idx[j]], n |-> 1]],
                          !.assignments = [i \in 1..m |-> 0],
                          !.pc = "loop"]
    /\ UNCHANGED <<pipelineVars, chunker, sampler, retrieval, retrier, batchJob, embedder>>

\* one pass of for (iter < maxIterations): assign, compare, update the
\* centroids of the clusters that have vectors; or the return after the loop
KMeansRound ==
    /\ kmeans.pc = "loop"
    /\ IF kmeans.iter < kmeans.maxIterations
           THEN \E newAssignments \in [1..Len(kmeans.vectors) -> 0..(kmeans.k - 1)] :
                   /\ \A i \in 1..Len(kmeans.vectors) :
                          newAssignments[i] \in
                              NearestClusters(kmeans.vectors[i], kmeans.centroids)
                   /\ IF newAssignments = kmeans.assignments
                          THEN kmeans' = [kmeans EXCEPT !.rounds = @ + 1,
                                              !.result = kmeans.assignments,
                                              !.pc = "returned"]
                          ELSE kmeans' = [kmeans EXCEPT
                                   !.rounds = @ + 1,
                                   !.iter = @ + 1,
                                   !.assignments = newAssignments,
                                   !.centroids = [c \in 1..kmeans.k |->
                                       LET mean == computeMean(kmeans.vectors, newAssignments,
                                                               c - 1, [s |-> 0, n |-> 0])
                                       IN  IF mean.n > 0 THEN mean ELSE kmeans.centroids[c]]]
           ELSE kmeans' = [kmeans EXCEPT !.result = kmeans.assignments, !.pc = "returned"]
    /\ UNCHANGED <<pipelineVars, chunker, sampler, retrieval, retrier, batchJob, embedder>>

\* ----------------------------------------------------------- specification
PipelineInit ==
    /\ jobStatus = "NONE"
    /\ processing_status = [c \in ChunkIds |-> "ABSENT"]
    /\ embedding = [c \in ChunkIds |-> "null"]
    /\ createPc = "start"
    /\ nChunks = 0
    /\ insertIdx = 0
    /\ blob = "stored"
    /\ settled = 0
    /\ invoked = [c \in ChunkIds |-> 0]
    /\ holders = [c \in ChunkIds |-> 0]
    /\ ppc = [p \in Pollers |-> "idle"]
    /\ counts = [p \in Pollers |-> NoCounts]
    /\ lastWorker = NoRun
    /\ lastResp = NoResp

Init ==
    /\ PipelineInit
    /\ chunker = NoChunker
    /\ sampler = NoSampler
    /\ kmeans = NoKMeans
    /\ retrieval = NoRetrieval /\ retrier = NoRetrier /\ batchJob = NoBatchJob /\ embedder = NoEmbedder

CreateJob == InsertJob(MaxChunks)
Initiator == CreateJob \/ InsertBatch \/ JobAccepted
ProcessChunk(c) ==
    ProcessChunkClaim(c) \/ \E r \in RetryRuns : ProcessChunkEmbedding(c, r)

\* any number of clients polling concurrently; nothing is observed
Start == Initiator /\ UNCHANGED <<obsVars, libVars>>
Poll == \E p \in Pollers : GetDocumentStatus(p) /\ UNCHANGED <<obsVars, libVars>>
Worker == \E c \in ChunkIds : ProcessChunk(c) /\ UNCHANGED <<obsVars, libVars>>

Next == Start \/ Poll \/ Worker

Spec == Init /\ [][Next]_vars

\* one client (poller 1) polling again and again; lastResp is the last status
\* response it received
ClientStart == Initiator /\ UNCHANGED <<obsVars, libVars>>
ClientPoll ==
    /\ GetDocumentStatus(1)
    /\ lastResp' = IF StatusAnswer(1) = NoResp THEN lastResp ELSE StatusAnswer(1)
    /\ UNCHANGED <<lastWorker, libVars>>
ClientWorker == \E c \in ChunkIds : ProcessChunk(c) /\ UNCHANGED <<obsVars, libVars>>

ClientNext == ClientStart \/ ClientPoll \/ ClientWorker

\* the client's poll loop keeps polling (App.tsx: setInterval), and a handler
\* that was started runs on to its response
ClientSpec == Init /\ [][ClientNext]_vars /\ WF_vars(ClientPoll)

\* one client polling; lastWorker is what the worker invocation that ended in the
\* latest step did and answered
WorkerStart == Initiator /\ lastWorker' = NoRun /\ UNCHANGED <<lastResp, libVars>>
WorkerPoll ==
    GetDocumentStatus(1) /\ lastWorker' = NoRun /\ UNCHANGED <<lastResp, libVars>>
WorkerClaim ==
    \E c \in ChunkIds :
        /\ ProcessChunkClaim(c)
        /\ lastWorker' = ClaimAnswer(c)
        /\ UNCHANGED <<lastResp, libVars>>
WorkerEmbedding ==
    \E c \in ChunkIds : \E r \in RetryRuns :
        /\ ProcessChunkEmbedding(c, r)
        /\ lastWorker' = EmbeddingAnswer(r)
        /\ UNCHANGED <<lastResp, libVars>>

WorkerNext == WorkerStart \/ WorkerPoll \/ WorkerClaim \/ WorkerEmbedding

WorkerSpec == Init /\ [][WorkerNext]_vars

\* one client polling either deployment; lastResp is the status response sent in
\* the latest step (NoResp: none), lastWorker tells of trigger requests that
\* failed in it
StatusStartJob ==
    CreateJob /\ lastResp' = NoResp /\ lastWorker' = NoRun /\ UNCHANGED libVars
\* the batch insert and the answer with the documentId, the same in both
StatusInsertChunks ==
    /\ InsertBatch \/ JobAccepted
    /\ lastResp' = NoResp /\ lastWorker' = NoRun /\ UNCHANGED libVars
StatusStartDocument ==
    /\ ProcessDocumentChunk(MaxChunks)
    /\ lastResp' = NoResp /\ lastWorker' = NoRun /\ UNCHANGED libVars
StatusLegacyJob ==
    LegacyJob /\ lastResp' = NoResp /\ lastWorker' = NoRun /\ UNCHANGED libVars
StatusPollJob ==
    /\ jobStatus # "NONE"
    /\ GetDocumentStatus(1)
    /\ lastResp' = StatusAnswer(1)
    /\ lastWorker' = IF AllTriggersFailed(1) THEN Untriggered ELSE NoRun
    /\ UNCHANGED libVars
StatusPollDocument ==
    /\ jobStatus = "NONE"
    /\ DocumentStatus(1)
    /\ lastResp' = DocumentStatusAnswer(1)
    /\ lastWorker' = IF AllTriggersFailed(1) THEN Untriggered ELSE NoRun
    /\ UNCHANGED libVars
StatusWorker ==
    /\ \E c \in ChunkIds : ProcessChunk(c)
    /\ lastResp' = NoResp /\ lastWorker' = NoRun /\ UNCHANGED libVars


StatusNext ==
    StatusStartJob \/ StatusStartDocument \/ StatusLegacyJob \/ StatusInsertChunks
        \/ StatusPollJob \/ StatusPollDocument \/ StatusWorker

StatusSpec == Init /\ [][StatusNext]_vars

\* the first statement of each handler: a request without a required field is
\* answered 400 at once
BadRequestMessage ==
    [handleProcessChunk |-> "chunkId and documentId are required.",
     handleProcessDocument |-> "File path and mimeType are required.",
     handleProcessTextDocument |-> "Text content and fileName are required.",
     handleGetDocumentStatus |-> "documentId is required."]
\* mutant: handleProcessTextDocument inserts the job row before it looks at the body
RequestRejectedAfterInsert(handler) ==
    IF handler = "handleProcessTextDocument" /\ jobStatus = "NONE"
    THEN /\ jobStatus' = "PENDING_EMBEDDING"
         /\ UNCHANGED <<createPc, nChunks, insertIdx, blob, settled, chunkVars, workerVars, pollVars>>
    ELSE UNCHANGED <<jobVars, chunkVars, workerVars, pollVars>>
\* what the handler does to the stores and the workers before that return
RequestRejected(handler) == UNCHANGED <<jobVars, chunkVars, workerVars, pollVars>>
RejectRequest ==
    /\ \E handler \in DOMAIN BadRequestMessage :
          /\ RequestRejected(handler)
          /\ lastResp' = Message([NoResp EXCEPT !.code = 400], BadRequestMessage[handler])
    /\ lastWorker' = NoRun /\ UNCHANGED libVars

\* the catch block of the initiator (part_011:428-431; documentHandler.ts:284-287):
\* an await of the try block threw (the insert of the job row or the download
\* of the file at the start, insertChunks for a batch later); 500 is answered,
\* no documentId is, and nothing is written or undone
CreateThrows ==
    /\ \/ createPc = "start"
       \/ createPc = "chunked" /\ nChunks > 0 /\ insertIdx < nChunks
    /\ createPc' = "failed"
    /\ UNCHANGED <<jobStatus, nChunks, insertIdx, blob, settled, chunkVars, workerVars, pollVars>>
    /\ lastResp' = Message([NoResp EXCEPT !.code = 500],
                           IF jobStatus = "NONE"
                               THEN "Failed to start file processing. Check server logs."
                               ELSE "Failed to create document processing job.")
    /\ lastWorker' = NoRun /\ UNCHANGED libVars

\* a worker invocation that claimed chunk c ends before _processChunkEmbedding
\* wrote a status (the function is stopped at its time limit, or crashes):
\* neither update of documentHandler.ts:159-183 runs
WorkerStops ==
    /\ \E c \in ChunkIds :
          /\ holders[c] > 0
          /\ holders' = [holders EXCEPT ![c] = @ - 1]
    /\ UNCHANGED <<invoked, jobVars, chunkVars, pollVars>>
    /\ lastResp' = NoResp
    /\ lastWorker' = [NoRun EXCEPT !.result = "stopped"]
    /\ UNCHANGED libVars

\* StatusSpec with requests that lack a field and a creation that throws
FaultNext == StatusNext \/ RejectRequest \/ CreateThrows
FaultSpec == Init /\ [][FaultNext]_vars

\* a document accepted by either deployment, of MaxChunks chunks or of
\* MaxChunks + MaxSettled chunks of which MaxSettled completed earlier, under
\* polls and workers that may stop
StrandInit ==
    /\ chunker = NoChunker /\ sampler = NoSampler
    /\ kmeans = NoKMeans /\ retrieval = NoRetrieval /\ retrier = NoRetrier /\ batchJob = NoBatchJob /\ embedder = NoEmbedder
    /\ jobStatus \in {"NONE", "PENDING_EMBEDDING"}
    /\ blob = IF jobStatus = "NONE" THEN "removed" ELSE "stored"
    /\ settled \in {0, MaxSettled}
    /\ createPc = "done" /\ nChunks = MaxChunks /\ insertIdx = BATCH_SIZE
    /\ processing_status = [c \in ChunkIds |-> "PENDING"]
    /\ embedding = [c \in ChunkIds |-> "null"]
    /\ invoked = [c \in ChunkIds |-> 0]
    /\ holders = [c \in ChunkIds |-> 0]
    /\ ppc = [p \in Pollers |-> "idle"]
    /\ counts = [p \in Pollers |-> NoCounts]
    /\ lastWorker = NoRun
    /\ lastResp = NoResp
StrandNext == StatusPollJob \/ StatusPollDocument \/ StatusWorker \/ WorkerStops
StrandSpec == StrandInit /\ [][StrandNext]_vars

\* retry(fn) run against every behaviour of the provider over its attempts
RetryCall ==
    /\ retrier.pc = "idle"
    /\ \E outs \in [1..retries -> ProviderOutcomes] :
          LET run == retry(outs) IN
          retrier' = [outs |-> outs, kind |-> run.kind, calls |-> run.calls,
                      sleeps |-> run.sleeps, error |-> run.error, pc |-> "returned"]
    /\ UNCHANGED <<pipelineVars, chunker, sampler, kmeans, retrieval, batchJob, embedder>>
RetryAgain ==
    /\ retrier.pc = "returned"
    /\ retrier' = NoRetrier
    /\ UNCHANGED <<pipelineVars, chunker, sampler, kmeans, retrieval, batchJob, embedder>>
RetryNext == RetryCall \/ RetryAgain
RetrySpec == Init /\ [][RetryNext]_vars

\* ------------------------------------------------------ chained workers
\* The deployment of documentHandler.ts:476-716, in which each worker triggers
\* the worker of the next index.  invoked[i] counts the trigger requests for
\* index i that reached the server and whose worker has not run yet; the chunk
\* ids are the indices of allChunkIds.
\* handleProcessDocument (documentHandler.ts:551-657): chunk, insert the batches,
\* trigger the worker of index 0 (a trigger that fails marks every chunk FAILED),
\* remove the file and answer with the documentId; with no chunks, remove the
\* file and answer.
ChainStart ==
    /\ \/ ProcessDocumentChunk(MaxChunks)
       \/ InsertBatch
       \/ /\ createPc = "chunked"
          /\ ~(nChunks > 0 /\ insertIdx < nChunks)
          /\ \E delivered \in BOOLEAN :
                /\ (nChunks = 0) => delivered
                /\ invoked' = [c \in ChunkIds |->
                        IF nChunks > 0 /\ delivered /\ c = 1 THEN 1 ELSE invoked[c]]
                /\ processing_status' = [c \in ChunkIds |->
                        IF ~delivered /\ c <= nChunks THEN "FAILED"
                        ELSE processing_status[c]]
          /\ blob' = "removed"
          /\ createPc' = "done"
          /\ UNCHANGED <<jobStatus, nChunks, insertIdx, settled, embedding, holders, pollVars>>
    /\ lastResp' = NoResp /\ lastWorker' = NoRun /\ UNCHANGED libVars

\* handleProcessChunk (documentHandler.ts:476-540, part_011:122-169) for index i:
\* _processChunkEmbedding sets the chunk COMPLETED, or FAILED when retry() threw;
\* after a failure the handler returns; after a success with a next index it
\* triggers the next worker, and a trigger that fails marks the chunks from the
\* next index on FAILED.  The answer is 200 in each case.
ChainWorker ==
    /\ \E i \in ChunkIds : \E kind \in {"value", "error"} : \E delivered \in BOOLEAN :
          LET more == kind = "value" /\ i < nChunks
              remaining == IF more /\ ~delivered
                           THEN {c \in ChunkIds : i < c /\ c <= nChunks} ELSE {}
          IN  /\ invoked[i] > 0
              /\ ~more => delivered
              /\ processing_status' = [c \in ChunkIds |->
                      IF c = i THEN FinalStatus(kind)
                      ELSE IF c \in remaining THEN "FAILED"
                      ELSE processing_status[c]]
              /\ embedding' = [embedding EXCEPT ![i] = IF kind = "value" THEN "vector" ELSE @]
              /\ invoked' = [c \in ChunkIds |->
                      IF c = i THEN invoked[c] - 1
                      ELSE IF more /\ delivered /\ c = i + 1 THEN invoked[c] + 1
                      ELSE invoked[c]]
              /\ lastWorker' = [NoRun EXCEPT !.code = 200,
                                             !.result = IF kind = "error" THEN "failed"
                                                        ELSE IF remaining # {} THEN "untriggered"
                                                        ELSE "completed"]
    /\ lastResp' = NoResp
    /\ UNCHANGED <<jobVars, holders, pollVars, libVars>>

\* handleGetDocumentStatus (documentHandler.ts:662-716): three counts read one
\* after the other (all rows, COMPLETED rows, FAILED rows), then the answer
ChainPoll ==
    /\ createPc = "done"
    /\ IF ppc[1] = "idle"
       THEN /\ counts' = [counts EXCEPT ![1] = [NoCounts EXCEPT !.total_chunks =
                            Cardinality({c \in ChunkIds : processing_status[c] # "ABSENT"})]]
            /\ ppc' = [ppc EXCEPT ![1] = "total"]
            /\ lastResp' = NoResp
       ELSE IF ppc[1] = "total"
       THEN /\ counts' = [counts EXCEPT ![1].completed_chunks =
                            Cardinality(WithStatus("COMPLETED"))]
            /\ ppc' = [ppc EXCEPT ![1] = "completed"]
            /\ lastResp' = NoResp
       ELSE /\ ppc[1] = "completed"
            /\ lastResp' = DocumentStatusResponse(
                    [counts[1] EXCEPT !.failed_chunks = Cardinality(WithStatus("FAILED"))])
            /\ counts' = [counts EXCEPT ![1] = NoCounts]
            /\ ppc' = [ppc EXCEPT ![1] = "idle"]
    /\ lastWorker' = NoRun
    /\ UNCHANGED <<jobVars, chunkVars, workerVars, libVars>>

ChainNext == ChainStart \/ ChainWorker \/ ChainPoll
ChainSpec == Init /\ [][ChainNext]_vars

\* ------------------------------------------------ client-driven batches
\* The variant in which the client drives the embedding batch by batch
\* (processingHandlers.ts): handleStart chunks the file and keeps the chunks in
\* an in-memory cache under a fresh jobId, handleBatch embeds and inserts one
\* slice of them, handleFinish removes the job. batchJob.jobCache is the set
\* of job ids in the cache; only job 1 is ever created, job id 2 stands for an
\* id the server never issued and 0 for a request without one. batchJob.rows
\* counts the rows stored for each chunk of the job's document.

\* job.chunks.slice(startIndex, startIndex + batchSize): the chunk positions
\* (counted from 1) of the slice
chunkBatch(chunks, startIndex, batchSize) ==
    {i \in 1..chunks : startIndex < i /\ i <= startIndex + batchSize}

\* an insert that stores only the first row of the batch
insertChunksFirstRow(rows, batch) ==
    [i \in 1..MaxJobChunks |->
        IF i \in batch /\ (\A j \in batch : i <= j) THEN rows[i] + 1 ELSE rows[i]]
\* insertChunks(documentsToInsert): one row more for every chunk of the batch
insertChunksRows(rows, batch) ==
    [i \in 1..MaxJobChunks |-> IF i \in batch THEN rows[i] + 1 ELSE rows[i]]

\* handleStart: the file is chunked and the job stored under a fresh id
\* (storeJob); a start whose download or parse fails stores nothing and is no
\* step of the model
handleStart ==
    /\ ~batchJob.started
    /\ \E n \in 0..MaxJobChunks :
         batchJob' = [batchJob EXCEPT !.jobCache = {1}, !.started = TRUE, !.chunks = n]
    /\ UNCHANGED <<pipelineVars, chunker, sampler, kmeans, retrieval, retrier, embedder>>

\* handleBatch up to its first wait: the body is validated, the job looked up
\* and the slice taken; the embeddings of the slice are then being made
handleBatch ==
    /\ batchJob.pc \in {"idle", "answered"}
    /\ \E jobId \in 0..2 : \E hasStartIndex \in BOOLEAN :
       \E startIndex \in 0..MaxJobChunks : \E batchSize \in 0..MaxBatchSize :
         /\ (~hasStartIndex) => startIndex = 0
         /\ LET req == [batchJob EXCEPT !.jobId = jobId, !.hasStartIndex = hasStartIndex,
                                        !.startIndex = startIndex, !.batchSize = batchSize,
                                        !.found = FALSE, !.before = batchJob.rows,
                                        !.embedded = {}, !.code = 0, !.message = ""]
                job == jobId \in batchJob.jobCache
                batch == chunkBatch(batchJob.chunks, startIndex, batchSize)
            IN  batchJob' =
                  IF jobId = 0 \/ ~hasStartIndex \/ batchSize = 0
                  THEN [req EXCEPT !.pc = "answered", !.code = 400,
                                   !.message = "jobId, startIndex, and batchSize are required."]
                  ELSE IF ~job
                  THEN [req EXCEPT !.pc = "answered", !.code = 404,
                                   !.message = "Job not found or expired."]
                  ELSE IF batch = {}
                  THEN [req EXCEPT !.pc = "answered", !.found = TRUE, !.code = 200,
                                   !.message = "No chunks to process in this batch."]
                  ELSE [req EXCEPT !.pc = "embedding", !.found = TRUE]
    /\ UNCHANGED <<pipelineVars, chunker, sampler, kmeans, retrieval, retrier, embedder>>

\* handleBatch, Promise.all(embeddingPromises) settles: with every embedding
\* made the rows are sent to the database, with one failed the catch answers 500
handleBatchEmbedded ==
    /\ batchJob.pc = "embedding"
    /\ LET batch == chunkBatch(batchJob.chunks, batchJob.startIndex, batchJob.batchSize)
       IN  \E embedded \in SUBSET batch :
             batchJob' = IF embedded = batch
                         THEN [batchJob EXCEPT !.pc = "inserting", !.embedded = embedded]
                         ELSE [batchJob EXCEPT !.pc = "answered", !.embedded = embedded,
                                               !.code = 500,
                                               !.message = "Failed to process batch."]
    /\ UNCHANGED <<pipelineVars, chunker, sampler, kmeans, retrieval, retrier, embedder>>

\* handleBatch, insertChunks settles: the one insert statement stores every
\* row of the batch and the handler answers success, or it stores none, throws
\* and the catch answers 500
handleBatchInserted ==
    /\ batchJob.pc = "inserting"
    /\ LET batch == chunkBatch(batchJob.chunks, batchJob.startIndex, batchJob.batchSize)
       IN  \E error \in BOOLEAN :
             /\ (~error) => \A i \in batch : batchJob.rows[i] < MaxRows
             /\ batchJob' = IF error
                            THEN [batchJob EXCEPT !.pc = "answered", !.code = 500,
                                                  !.message = "Failed to process batch."]
                            ELSE [batchJob EXCEPT !.pc = "answered", !.code = 200,
                                                  !.message = "",
                                                  !.rows = insertChunksRows(batchJob.rows, batch)]
    /\ UNCHANGED <<pipelineVars, chunker, sampler, kmeans, retrieval, retrier, embedder>>

\* handleFinish: the job is removed from the cache (deleteJob), whether or not
\* it was there; a batch request being served goes on with the job it read
handleFinish ==
    /\ batchJob.started
    /\ \E jobId \in 1..2 :
         batchJob' = [batchJob EXCEPT !.jobCache = batchJob.jobCache \ {jobId}]
    /\ UNCHANGED <<pipelineVars, chunker, sampler, kmeans, retrieval, retrier, embedder>>

\* storeJob's timer: after 30 minutes a job still in the cache is removed
jobExpires ==
    /\ 1 \in batchJob.jobCache
    /\ batchJob' = [batchJob EXCEPT !.jobCache = {}]
    /\ UNCHANGED <<pipelineVars, chunker, sampler, kmeans, retrieval, retrier, embedder>>

BatchNext ==
    \/ handleStart
    \/ handleBatch
    \/ handleBatchEmbedded
    \/ handleBatchInserted
    \/ handleFinish
    \/ jobExpires

BatchSpec == Init /\ [][BatchNext]_vars

\* ------------------------------------------------ the embedding pipeline
\* embeddingService.ts keeps the model in a module variable. embedder.promises
\* lists the state of every promise getPipeline created ("pending",
\* "resolved", "rejected"), embedder.pipelinePromise is the position of the
\* stored one in that list, 0 for null. embedder.awaiting[c] is the promise
\* the createEmbedding call c waits for.
Callers == 1..NumCallers

\* a getPipeline that starts an initialisation on every call
getPipelineAfresh(e) ==
    [e EXCEPT !.promises = Append(e.promises, "pending"),
              !.pipelinePromise = Len(e.promises) + 1]
\* getPipeline: with null stored, a promise is created, its initialisation
\* started and the promise stored; the stored promise is returned
getPipeline(e) ==
    IF e.pipelinePromise = 0
    THEN [e EXCEPT !.promises = Append(e.promises, "pending"),
                   !.pipelinePromise = Len(e.promises) + 1]
    ELSE e

\* createEmbedding up to its await: the caller waits for getPipeline()
createEmbedding ==
    \E c \in Callers :
      /\ embedder.awaiting[c] = 0
      /\ LET e == getPipeline(embedder)
         IN  /\ Len(e.promises) <= MaxInits
             /\ embedder' = [e EXCEPT !.awaiting[c] = e.pipelinePromise,
                                      !.result[c] = "none"]
      /\ UNCHANGED <<pipelineVars, chunker, sampler, kmeans, retrieval, retrier, batchJob>>

\* the executor of a promise ends well: resolve(extractor)
pipelineResolves ==
    \E g \in 1..Len(embedder.promises) :
      /\ embedder.promises[g] = "pending"
      /\ embedder' = [embedder EXCEPT !.promises[g] = "resolved"]
      /\ UNCHANGED <<pipelineVars, chunker, sampler, kmeans, retrieval, retrier, batchJob>>

\* the import or the model load throws: the catch stores null and rejects
pipelineRejects ==
    \E g \in 1..Len(embedder.promises) :
      /\ embedder.promises[g] = "pending"
      /\ embedder' = [embedder EXCEPT !.promises[g] = "rejected", !.pipelinePromise = 0]
      /\ UNCHANGED <<pipelineVars, chunker, sampler, kmeans, retrieval, retrier, batchJob>>

\* createEmbedding after its await: with the extractor the vector is made,
\* with a rejected promise the call throws
createEmbeddingResumes ==
    \E c \in Callers :
      /\ embedder.awaiting[c] # 0
      /\ embedder.promises[embedder.awaiting[c]] # "pending"
      /\ embedder' = [embedder EXCEPT
                        !.awaiting[c] = 0,
                        !.result[c] = IF embedder.promises[embedder.awaiting[c]] = "resolved"
                                      THEN "vector" ELSE "error"]
      /\ UNCHANGED <<pipelineVars, chunker, sampler, kmeans, retrieval, retrier, batchJob>>

EmbedNext ==
    \/ createEmbedding
    \/ pipelineResolves
    \/ pipelineRejects
    \/ createEmbeddingResumes

EmbedSpec == Init /\ [][EmbedNext]_vars


\* chunkText called on any text with any chunkSize >= 1 and overlap >= 0
ChunkInit ==
    /\ PipelineInit
    /\ sampler = NoSampler /\ kmeans = NoKMeans /\ retrieval = NoRetrieval /\ retrier = NoRetrier /\ batchJob = NoBatchJob /\ embedder = NoEmbedder
    /\ \E text \in Texts : \E chunkSize \in 1..MaxChunkSize : \E overlap \in 0..MaxOverlap :
         chunker = ChunkTextCall(text, chunkSize, overlap)
ChunkIterate == ChunkTextIterate /\ UNCHANGED <<pipelineVars, sampler, kmeans, retrieval, retrier, batchJob, embedder>>
ChunkReturn == ChunkTextReturn /\ UNCHANGED <<pipelineVars, sampler, kmeans, retrieval, retrier, batchJob, embedder>>
ChunkNext == ChunkIterate \/ ChunkReturn
ChunkSpec == ChunkInit /\ [][ChunkNext]_vars

\* stratifiedSample called on any list of items with any assignment of them to
\* k clusters and any target count; the caller may call again
SampleInit ==
    /\ PipelineInit
    /\ chunker = NoChunker /\ kmeans = NoKMeans /\ retrieval = NoRetrieval /\ retrier = NoRetrier /\ batchJob = NoBatchJob /\ embedder = NoEmbedder
    /\ \E items \in ItemLists : \E k \in 1..MaxK :
         \E clusterAssignments \in Assignments(Len(items), k) :
           \E targetCount \in 0..MaxTarget :
             sampler = StratifiedSampleCall(items, clusterAssignments, targetCount, k)
SampleReturn == StratifiedSampleReturn /\ UNCHANGED <<pipelineVars, chunker, kmeans, retrieval, retrier, batchJob, embedder>>
SampleCallAgain ==
    /\ sampler.pc = "returned"
    /\ \E targetCount \in 0..MaxTarget :
         sampler' = StratifiedSampleCall(sampler.items, sampler.clusterAssignments,
                                         targetCount, sampler.k)
    /\ UNCHANGED <<pipelineVars, chunker, kmeans, retrieval, retrier, batchJob, embedder>>
SampleNext == SampleReturn \/ SampleCallAgain
SampleSpec == SampleInit /\ [][SampleNext]_vars

\* --------------------------------------- queryRelevantChunks(documentIds)
\* the number of chunks requested of each document
perDocumentAll(matchCount, numDocuments) == matchCount
perDocument(matchCount, numDocuments) == CeilDiv(matchCount, numDocuments)

\* the rpc match_documents for document d answers with the match_count nearest
\* of the chunks stored for it: chunk <<d, r>> is its r-th nearest
match_documents(d, stored, match_count) ==
    [r \in 1..Min(match_count, stored) |-> <<d, r>>]

SearchFailedThrows(frame, d) == [frame EXCEPT !.pc = "thrown"]
\* the search of document d failed: d contributes no chunk
SearchFailed(frame, d) ==
    [frame EXCEPT !.found = Append(@, <<>>), !.failed = @ \cup {d}]

\* the nearest-neighbour request for the next document, answered or failed
QueryDocument ==
    /\ retrieval.pc = "called"
    /\ Len(retrieval.found) < Len(retrieval.documentIds)
    /\ LET d == Len(retrieval.found) + 1
           match_count == perDocument(retrieval.matchCount, Len(retrieval.documentIds))
           asked == [retrieval EXCEPT !.requested = Append(@, match_count)]
           data == match_documents(retrieval.documentIds[d], retrieval.stored[d], match_count)
       IN  \/ retrieval' = [asked EXCEPT !.found = Append(@, data), !.chunks = @ \o data]
           \/ retrieval' = SearchFailed(asked, d)
    /\ UNCHANGED <<pipelineVars, chunker, sampler, kmeans, retrier, batchJob, embedder>>

\* every document answered: the concatenation, cut to matchCount
QueryReturn ==
    /\ retrieval.pc = "called"
    /\ Len(retrieval.found) = Len(retrieval.documentIds)
    /\ retrieval' = [retrieval EXCEPT
           !.result = slice(retrieval.chunks, 0,
                            Min(retrieval.matchCount, Len(retrieval.chunks))),
           !.pc = "returned"]
    /\ UNCHANGED <<pipelineVars, chunker, sampler, kmeans, retrier, batchJob, embedder>>

\* queryRelevantChunks called with one or more document ids (handleChat's
\* schema: min(1)), any matchCount and any number of chunks stored
RetrievalInit ==
    /\ PipelineInit
    /\ chunker = NoChunker /\ sampler = NoSampler /\ kmeans = NoKMeans
    /\ retrier = NoRetrier /\ batchJob = NoBatchJob /\ embedder = NoEmbedder
    /\ \E n \in 1..MaxDocs : \E matchCount \in 1..MaxMatch :
         \E stored \in [1..n -> 0..MaxStored] :
           retrieval = [NoRetrieval EXCEPT !.documentIds = [d \in 1..n |-> d],
                                           !.matchCount = matchCount,
                                           !.stored = stored, !.pc = "called"]
RetrievalNext == QueryDocument \/ QueryReturn
RetrievalSpec == RetrievalInit /\ [][RetrievalNext]_vars

\* kMeansClustering called on any vectors with any k, and representative
\* sampling resting on it: with more chunks than requested, the chunks are
\* clustered into clamp(ceil(total/10), 3, 5) clusters under the default
\* maxIterations, and stratifiedSample is called with the assignments
ClusterInit ==
    /\ PipelineInit
    /\ chunker = NoChunker /\ sampler = NoSampler /\ retrieval = NoRetrieval /\ retrier = NoRetrier /\ batchJob = NoBatchJob /\ embedder = NoEmbedder
    /\ \E vectors \in VectorLists : \E k \in 0..MaxK : \E maxIterations \in {1, 10} :
         kmeans = [NoKMeans EXCEPT !.vectors = vectors, !.k = k,
                                   !.maxIterations = maxIterations, !.pc = "called"]
getRepresentativeChunks ==
    /\ kmeans.pc = "returned" /\ sampler.pc = "idle"
    /\ kmeans.maxIterations = 10
    /\ kmeans.k = Min(Max(CeilDiv(Len(kmeans.vectors), 10), 3), 5)
    /\ \E count \in 1..MaxTarget :
         /\ Len(kmeans.vectors) > count
         /\ sampler' = StratifiedSampleCall([i \in 1..Len(kmeans.vectors) |-> i],
                                            kmeans.result, count, kmeans.k)
    /\ UNCHANGED <<pipelineVars, chunker, kmeans, retrieval, retrier, batchJob, embedder>>
ClusterNext == KMeansBegin \/ KMeansRound \/ getRepresentativeChunks \/ SampleReturn
ClusterSpec == ClusterInit /\ [][ClusterNext]_vars

\* ------------------------------------------------------------------ claims

\* C1: when process-one-chunk invocations race on a chunk, the one that runs the
\* conditional update while the chunk is PENDING wins it (the chunk becomes
\* PROCESSING with that invocation as its only holder); an invocation whose
\* update finds the chunk not PENDING changes neither the chunk's status nor its
\* embedding, holds nothing, makes no provider call and answers 200.
C1_ClaimIdempotent ==
    [][\A c \in ChunkIds :
          /\ holders'[c] <= 1
          /\ invoked'[c] < invoked[c] =>
                IF processing_status[c] = "PENDING"
                THEN /\ processing_status'[c] = "PROCESSING"
                     /\ holders[c] = 0 /\ holders'[c] = 1
                ELSE /\ processing_status' = processing_status
                     /\ embedding' = embedding
                     /\ holders' = holders
                     /\ lastWorker'.result = "noop"
                     /\ lastWorker'.code = 200
                     /\ lastWorker'.calls = 0]_vars

\* a second invocation for the only chunk has just lost the claim (200, no-op)
\* while the winner still holds the chunk
C1_Witness ==
    /\ nChunks = 1
    /\ lastWorker.result = "noop" /\ lastWorker.code = 200
    /\ processing_status[1] = "PROCESSING" /\ holders[1] = 1

\* C2: at most MAX_CONCURRENT_WORKERS chunks of the document are PROCESSING, in
\* every reachable state.
C2_ProcessingBounded ==
    Cardinality(WithStatus("PROCESSING")) <= MAX_CONCURRENT_WORKERS

\* C3: a chunk has a non-null embedding if and only if it is COMPLETED.
C3_EmbeddingIffCompleted ==
    \A c \in ChunkIds : (embedding[c] # "null") <=> (processing_status[c] = "COMPLETED")

\* chunks of one document in all four statuses at once, one of them completed
\* with its embedding stored
C3_Witness ==
    /\ \E c \in ChunkIds : processing_status[c] = "COMPLETED" /\ embedding[c] = "vector"
    /\ \E c \in ChunkIds : processing_status[c] = "FAILED" /\ embedding[c] = "null"
    /\ \E c \in ChunkIds : processing_status[c] = "PROCESSING" /\ embedding[c] = "null"
    /\ \E c \in ChunkIds : processing_status[c] = "PENDING" /\ embedding[c] = "null"

\* C4: when a call of a worker's retry run fails with a rate-limit error whose
\* required cooldown is above the threshold, the run stops there, the worker sets
\* the chunk back to PENDING with no embedding and answers 200; the chunk is then
\* among the chunks a poll can select and its claim update matches again.
C4_LongRateLimitRequeues ==
    [][\A c \in ChunkIds :
          (holders'[c] < holders[c] /\ lastWorker'.long) =>
              /\ lastWorker'.result = "requeued"
              /\ lastWorker'.code = 200
              /\ lastWorker'.nerr = lastWorker'.calls
              /\ processing_status'[c] = "PENDING"
              /\ embedding'[c] = "null"
              /\ holders'[c] = 0
              /\ ClaimMatches(c)'
              /\ (\E sel \in SelectPending(MaxChunks) : c \in sel)'
              /\ (get_document_processing_status.pending_chunks > 0)']_vars

\* the only chunk of a document was re-queued after a first call that asked for
\* a long cooldown
C4_Witness ==
    /\ nChunks = 1
    /\ lastWorker.result = "requeued" /\ lastWorker.long /\ lastWorker.calls = 1
    /\ processing_status[1] = "PENDING" /\ holders[1] = 0

\* C5: a worker run in which every error was a rate-limit signal (status 429
\* with a message) never marks the chunk FAILED.
C5_RateLimitNeverFails ==
    [][\A c \in ChunkIds :
          (holders'[c] < holders[c] /\ lastWorker'.errs = "rate") =>
              processing_status'[c] # "FAILED"]_vars

\* C6: when every call of the retry budget of one worker run fails with a
\* non-rate-limit error, the chunk is set to FAILED and the worker answers 500;
\* a FAILED chunk stays FAILED: no step changes its status or embedding, no
\* invocation claims it, and no poll dispatches it.
C6_FailedIsPermanent ==
    [][\A c \in ChunkIds :
          /\ (holders'[c] < holders[c] /\ lastWorker'.errs = "other"
                 /\ lastWorker'.nerr = retries) =>
                /\ processing_status'[c] = "FAILED"
                /\ embedding'[c] = "null"
                /\ lastWorker'.result = "failed"
                /\ lastWorker'.code = 500
          /\ processing_status[c] = "FAILED" =>
                /\ processing_status'[c] = "FAILED"
                /\ embedding'[c] = embedding[c]
                /\ holders[c] = 0 /\ holders'[c] = 0
                /\ invoked'[c] <= invoked[c]
                /\ \A sel \in SelectPending(MaxChunks) : c \notin sel]_vars

\* the only chunk of a document has just failed on all three calls with errors
\* that are not rate-limit signals, the worker answered 500, and another
\* invocation for the chunk is still on its way
C6_Witness ==
    /\ nChunks = 1
    /\ lastWorker.result = "failed" /\ lastWorker.code = 500
    /\ lastWorker.errs = "other" /\ lastWorker.nerr = retries
    /\ processing_status[1] = "FAILED"
    /\ invoked[1] > 0

\* the job was accepted and every chunk of it is COMPLETED or FAILED
AllChunksTerminal ==
    /\ createPc = "done"
    /\ \A c \in ChunkIds : processing_status[c] \in {"ABSENT", "COMPLETED", "FAILED"}

AnyChunkFailed == \E c \in ChunkIds : processing_status[c] = "FAILED"

\* C7: with the client polling again and again, once every chunk of the job is
\* COMPLETED or FAILED, eventually the stored job status is COMPLETED or FAILED
\* and the client has received a response with isFinished = true.
C7_TerminalConvergence ==
    AllChunksTerminal ~>
        (jobStatus \in {"COMPLETED", "FAILED"} /\ lastResp.isFinished)

\* a job of MaxChunks chunks, one of them FAILED, has been reported finished
C7_Witness ==
    /\ nChunks = MaxChunks
    /\ AllChunksTerminal /\ AnyChunkFailed
    /\ jobStatus \in {"COMPLETED", "FAILED"}
    /\ lastResp.isFinished

\* C8: the poll that has counted completed + failed = total for a job in
\* PENDING_EMBEDDING stores the job status FAILED if some chunk is FAILED and
\* COMPLETED otherwise, and answers progress 100, isFinished = true, and
\* hasFailed = true exactly if some chunk is FAILED.
C8_FinishingPoll ==
    [][((\/ /\ ppc[1] = "counted"
            /\ counts[1].completed_chunks + counts[1].failed_chunks
                   = counts[1].total_chunks
         \/ /\ ppc[1] = "embedding"
            /\ get_document_processing_status.total_chunks = 0)
        /\ ppc'[1] = "idle") =>
            /\ jobStatus = "PENDING_EMBEDDING"
            /\ jobStatus' = IF AnyChunkFailed THEN "FAILED" ELSE "COMPLETED"
            /\ lastResp'.code = 200
            /\ lastResp'.progress = 100
            /\ lastResp'.isFinished
            /\ lastResp'.hasFailed = AnyChunkFailed
            /\ lastResp'.isReady = ~AnyChunkFailed]_vars

\* the finishing poll of a job with completed and failed chunks has answered,
\* and no later poll has read the stored status yet
C8_Witness ==
    /\ jobStatus = "FAILED"
    /\ lastResp = Message(Response(FALSE, TRUE, TRUE, 100), "Processing FAILED.")
    /\ \E c \in ChunkIds : processing_status[c] = "COMPLETED"
    /\ \E c \in ChunkIds : processing_status[c] = "FAILED"
    /\ ppc[1] = "idle"

\* C9: the progress of a status response is never below the progress of the
\* response the client received before it.
C9_ProgressMonotonic ==
    [][(lastResp.code = 200 /\ lastResp'.code = 200) =>
            lastResp'.progress >= lastResp.progress]_vars

\* the client was told 50 percent with a failure; a chunk is PENDING again after
\* a re-queue or still waiting, and the poll in progress has counted more
\* finished chunks than the last one
C9_Witness ==
    /\ nChunks = MaxChunks
    /\ lastResp.code = 200 /\ lastResp.progress = 50 /\ lastResp.hasFailed
    /\ ppc[1] = "counted"
    /\ counts[1].completed_chunks + counts[1].failed_chunks = 3
    /\ counts[1].pending_chunks = 1

C11_ReadyIffFinishedClean ==
    lastResp.code = 200 =>
        (lastResp.isReady <=> (lastResp.isFinished /\ ~lastResp.hasFailed))

\* the handler with a job store has just answered the finishing poll of a job
\* with a failed chunk: finished, failed, not ready
C11_Witness ==
    /\ jobStatus = "FAILED"
    /\ lastResp.code = 200
    /\ lastResp.isFinished /\ lastResp.hasFailed /\ ~lastResp.isReady

\* C12: for a document with zero chunks, every status response reports
\* isReady = true, isFinished = true, hasFailed = false and progress 100, no
\* worker is triggered, and a stored job ends COMPLETED.
C12_EmptyDocumentFinished ==
    (/\ createPc = "done"
     /\ nChunks = 0
     /\ jobStatus \notin LegacyStages
     /\ lastResp.code = 200) =>
        /\ lastResp.isReady /\ lastResp.isFinished /\ ~lastResp.hasFailed
        /\ lastResp.progress = 100
        /\ \A c \in ChunkIds : invoked[c] = 0
        /\ jobStatus \in {"NONE", "COMPLETED"}

\* C13: a status poll never writes a chunk row; when every trigger request of a
\* dispatch fails before a worker starts, each chunk that was PENDING is still
\* PENDING (not PROCESSING, not FAILED) with its claim open, and a poll that
\* counts free capacity afterwards can select it.
C13_FailedTriggerLeavesPending ==
    [][/\ ppc' # ppc => (processing_status' = processing_status /\ embedding' = embedding)
       /\ lastWorker'.result = "untriggered" =>
            /\ holders' = holders
            /\ \A c \in WithStatus("PENDING") :
                 /\ processing_status'[c] = "PENDING"
                 /\ ClaimMatches(c)'
                 /\ (LET row == get_document_processing_status IN
                       HasCapacity(row) =>
                           \E sel \in ChunksToProcess(row) : c \in sel)']_vars

\* the trigger request for the only chunk of a document has just failed: the
\* chunk is PENDING, no request for it is in flight and no worker holds it
C13_Witness ==
    /\ nChunks = 1
    /\ lastWorker.result = "untriggered"
    /\ processing_status[1] = "PENDING"
    /\ invoked[1] = 0 /\ holders[1] = 0

\* C14: a status poll that reads a stored job status of COMPLETED or FAILED
\* answers from it alone (COMPLETED: ready, finished, not failed, 100; FAILED:
\* not ready, finished, failed, 100), writes neither the job nor a chunk row and
\* triggers no worker.
C14_TerminalPollReadsOnly ==
    [][(jobStatus \in {"COMPLETED", "FAILED"} /\ ppc[1] = "idle" /\ lastResp' # NoResp) =>
            /\ lastResp' = IF jobStatus = "COMPLETED"
                           THEN Message(Response(TRUE, TRUE, FALSE, 100),
                                        "Processing Complete.")
                           ELSE Message(Response(FALSE, TRUE, TRUE, 100),
                                        "Processing Failed.")
            /\ jobStatus' = jobStatus
            /\ processing_status' = processing_status
            /\ embedding' = embedding
            /\ invoked' = invoked
            /\ holders' = holders
            /\ ppc' = ppc /\ counts' = counts]_vars

\* a poll has just answered from the stored status FAILED (the finishing poll
\* answers with another message), with a completed chunk and a failed chunk
C14_Witness ==
    /\ jobStatus = "FAILED"
    /\ lastResp = Message(Response(FALSE, TRUE, TRUE, 100), "Processing Failed.")
    /\ \E c \in ChunkIds : processing_status[c] = "COMPLETED"
    /\ \E c \in ChunkIds : processing_status[c] = "FAILED"

\* C15: under concurrent polls the stored job status only moves forward: from
\* PENDING_EMBEDDING it goes to COMPLETED or FAILED or stays, never to an
\* extraction stage, and once COMPLETED or FAILED it never changes.
C15_JobStageForward ==
    [][/\ jobStatus = "PENDING_EMBEDDING" =>
            jobStatus' \in {"PENDING_EMBEDDING", "COMPLETED", "FAILED"}
       /\ jobStatus \in {"COMPLETED", "FAILED"} => jobStatus' = jobStatus]_vars

\* two polls race at the finish: one has written FAILED, the other has counted
\* all chunks finished and is about to write the final status too
C15_Witness ==
    /\ jobStatus = "FAILED"
    /\ \E p \in Pollers :
         /\ ppc[p] = "counted"
         /\ counts[p].total_chunks > 0
         /\ counts[p].completed_chunks + counts[p].failed_chunks = counts[p].total_chunks
         /\ counts[p].failed_chunks > 0

\* C16 (as claimed): a status poll that answers for a job stored as
\* PENDING_EXTRACTION leaves the job claimed, that is EXTRACTING, and reports
\* progress 0.
C16_ExtractionClaimed ==
    [][(jobStatus = "PENDING_EXTRACTION" /\ lastResp' # NoResp) =>
            (jobStatus' = "EXTRACTING" /\ lastResp'.progress = 0)]_vars

\* C16 (amended): a status poll of a job stored as PENDING_EXTRACTION or
\* EXTRACTING claims nothing, writes nothing and triggers nothing: the stored
\* status stays as it is in every step, and every such poll answers
\* isReady = false, isFinished = false, hasFailed = false, progress 0.
C16_ExtractionStageReportedOnly ==
    [][(jobStatus \in LegacyStages) =>
            /\ jobStatus' = jobStatus
            /\ processing_status' = processing_status
            /\ invoked' = invoked
            /\ holders' = holders
            /\ ppc' = ppc
            /\ (lastResp' # NoResp =>
                   lastResp' = Message(Response(FALSE, FALSE, FALSE, 0),
                                       "Initializing..."))]_vars

\* a poll of a job stored as EXTRACTING has just been answered with progress 0
C16_Witness ==
    /\ jobStatus = "EXTRACTING"
    /\ lastResp.code = 200 /\ lastResp.progress = 0 /\ ~lastResp.isFinished
    /\ lastResp.message = "Initializing..."

\* C17: in every iteration of chunkText's loop the cursor strictly advances,
\* for every text, chunkSize >= 1 and overlap >= 0 (so the loop ends).
C17_CursorAdvances ==
    [][chunker'.chunks # chunker.chunks => chunker'.i > chunker.i]_vars

ReturnedWithOverlapBelowSize ==
    chunker.pc = "returned" /\ chunker.overlap < chunker.chunkSize

\* C18 (as claimed): for 0 <= O < S chunkText returns no chunk for an empty text
\* and ceil(max(L - O, 1) / (S - O)) chunks for a text of length L > 0.
C18_ChunkCountAsClaimed ==
    ReturnedWithOverlapBelowSize =>
        Len(chunker.chunks) =
            IF Len(chunker.text) = 0 THEN 0
            ELSE CeilDiv(Max(Len(chunker.text) - chunker.overlap, 1),
                         chunker.chunkSize - chunker.overlap)

\* the 2500 characters of the example
ExampleText == [j \in 1..2500 |-> "a"]
ExampleChunks == Len(chunkText(ExampleText, 1000, 200))

\* C18 (amended): for 0 <= O < S chunkText returns no chunk for an empty text
\* and ceil(L / (S - O)) chunks for a text of length L > 0; L = 2500, S = 1000,
\* O = 200 yields 4 chunks.
C18_ChunkCount ==
    /\ ReturnedWithOverlapBelowSize =>
        Len(chunker.chunks) =
            IF Len(chunker.text) = 0 THEN 0
            ELSE CeilDiv(Len(chunker.text), chunker.chunkSize - chunker.overlap)
    /\ ExampleChunks = 4

\* a text of 5 characters cut with chunkSize 3 and overlap 1 gave 3 chunks
C18_Witness ==
    /\ chunker.pc = "returned"
    /\ Len(chunker.text) = 5 /\ chunker.chunkSize = 3 /\ chunker.overlap = 1
    /\ Len(chunker.chunks) = 3

\* the chunks from the j-th on, each later chunk without its first overlap
\* characters (all of it if it is shorter), joined
RECURSIVE JoinWithoutOverlap(_, _, _)
JoinWithoutOverlap(chunks, j, overlap) ==
    IF j > Len(chunks) THEN <<>>
    ELSE LET drop == IF j = 1 THEN 0 ELSE Min(overlap, Len(chunks[j]))
         IN  SubSeq(chunks[j], drop + 1, Len(chunks[j]))
                 \o JoinWithoutOverlap(chunks, j + 1, overlap)

\* C19: for 0 <= O < S the j-th chunk (from 0) is text[j(S-O) .. min(j(S-O)+S, L)),
\* and the first chunk joined with every later chunk minus its first O
\* characters is the text.
C19_WindowsReconstructText ==
    ReturnedWithOverlapBelowSize =>
        LET step == chunker.chunkSize - chunker.overlap
            L == Len(chunker.text)
        IN  /\ \A j \in 1..Len(chunker.chunks) :
                 chunker.chunks[j] =
                     SubSeq(chunker.text, (j - 1) * step + 1,
                            Min((j - 1) * step + chunker.chunkSize, L))
            /\ JoinWithoutOverlap(chunker.chunks, 1, chunker.overlap) = chunker.text

\* a text of 5 characters, not all the same, cut with chunkSize 3 and overlap 2:
\* the last chunk is shorter than the overlap
C19_Witness ==
    /\ chunker.pc = "returned"
    /\ Len(chunker.text) = 5 /\ chunker.chunkSize = 3 /\ chunker.overlap = 2
    /\ chunker.text[1] # chunker.text[2]
    /\ Len(chunker.chunks) = 5
    /\ Len(chunker.chunks[5]) < chunker.overlap


\* positions in the result of the items of cluster c, and the place an item
\* had in the list passed in
FromCluster(c) ==
    {j \in 1..Len(sampler.result) :
        \E i \in 1..Len(sampler.items) :
            sampler.items[i] = sampler.result[j] /\ sampler.clusterAssignments[i] = c}
PlaceOf(item) == CHOOSE i \in 1..Len(sampler.items) : sampler.items[i] = item

\* C20: stratifiedSample(items, assignments, target, k) returns at most target
\* items, at most ceil(target/k) of them from any one cluster, and the items of
\* each cluster in the relative order they had in items.
C20_SampleBounded ==
    sampler.pc = "returned" =>
        /\ Len(sampler.result) <= sampler.targetCount
        /\ \A j \in 1..Len(sampler.result) :
               \E i \in 1..Len(sampler.items) : sampler.items[i] = sampler.result[j]
        /\ \A c \in 0..(sampler.k - 1) :
               /\ Cardinality(FromCluster(c)) <= CeilDiv(sampler.targetCount, sampler.k)
               /\ \A j1, j2 \in FromCluster(c) :
                      j1 < j2 => PlaceOf(sampler.result[j1]) < PlaceOf(sampler.result[j2])
\* a call that took two items of one cluster, left a third of it out, and took
\* from another cluster items that came earlier in the list
C20_Witness ==
    /\ sampler.pc = "returned"
    /\ Len(sampler.result) = sampler.targetCount
    /\ Len(sampler.items) > sampler.targetCount
    /\ \E c \in 0..(sampler.k - 1) :
          /\ Cardinality(FromCluster(c)) = 2
          /\ Cardinality({i \in 1..Len(sampler.items) : sampler.clusterAssignments[i] = c}) = 3
    /\ \E j1, j2 \in 1..Len(sampler.result) :
          j1 < j2 /\ PlaceOf(sampler.result[j1]) > PlaceOf(sampler.result[j2])

\* C21: representative sampling over more chunks than requested returns exactly
\* the requested count, for every cluster assignment k-means can produce.
C21_SampleHasTargetSize ==
    (kmeans.pc = "returned" /\ sampler.pc = "returned") =>
        Len(sampler.result) = sampler.targetCount

\* C22: kMeansClustering(vectors, k) with at least one vector and k >= the number
\* of vectors returns the assignment [0, 1, ..., n-1] and runs no assignment
\* round (and chooses no centroid).
C22_OneVectorPerCluster ==
    (kmeans.pc = "returned" /\ Len(kmeans.vectors) >= 1
        /\ kmeans.k >= Len(kmeans.vectors)) =>
        /\ kmeans.result = [i \in 1..Len(kmeans.vectors) |-> i - 1]
        /\ kmeans.rounds = 0 /\ kmeans.iter = 0
        /\ kmeans.centroids = <<>>
\* k equal to the number of vectors, two of them the same
C22_Witness ==
    /\ kmeans.pc = "returned"
    /\ Len(kmeans.vectors) = 3 /\ kmeans.k = 3
    /\ kmeans.vectors[1] = kmeans.vectors[2]
    /\ kmeans.result = <<0, 1, 2>>

\* the chunks the documents whose search succeeded answered with, in the order
\* of the document ids
RECURSIVE AnsweredFrom(_)
AnsweredFrom(d) ==
    IF d > Len(retrieval.documentIds) THEN <<>>
    ELSE (IF d \in retrieval.failed THEN <<>>
          ELSE match_documents(retrieval.documentIds[d], retrieval.stored[d],
                               CeilDiv(retrieval.matchCount, Len(retrieval.documentIds))))
         \o AnsweredFrom(d + 1)

\* C23: when the nearest-neighbour search fails for a document the request still
\* succeeds: no exception reaches the caller, and the result is made of the
\* chunks of the other documents (the failed one contributes none).
C23_FailedDocumentTolerated ==
    /\ retrieval.pc # "thrown"
    /\ retrieval.pc = "returned" =>
          /\ retrieval.result =
                 SubSeq(AnsweredFrom(1), 1,
                        Min(retrieval.matchCount, Len(AnsweredFrom(1))))
          /\ \A j \in 1..Len(retrieval.result) :
                 retrieval.result[j][1] \notin retrieval.failed
\* the search of the first of two documents failed, the second one's chunks are
\* returned
C23_Witness ==
    /\ retrieval.pc = "returned"
    /\ Len(retrieval.documentIds) = 2 /\ retrieval.failed = {1}
    /\ retrieval.stored[1] > 0
    /\ retrieval.matchCount = 3
    /\ retrieval.result = <<<<2, 1>>, <<2, 2>>>>

\* C24: with matchCount m over n document ids, ceil(m/n) chunks are requested of
\* each document, and at most m chunks are returned, taken in document order
\* from what the documents answered.
C24_EvenRequestsCutToMatchCount ==
    /\ \A d \in 1..Len(retrieval.requested) :
           retrieval.requested[d] =
               CeilDiv(retrieval.matchCount, Len(retrieval.documentIds))
    /\ retrieval.pc = "returned" =>
          /\ Len(retrieval.requested) = Len(retrieval.documentIds)
          /\ Len(retrieval.result) <= retrieval.matchCount
          /\ \A j \in 1..Len(retrieval.result) : retrieval.result[j] = retrieval.chunks[j]
\* m = 5 over 2 documents with 3 chunks each: 3 are requested of each, and the
\* 5 returned are 3 of the first and 2 of the second
C24_Witness ==
    /\ retrieval.pc = "returned"
    /\ retrieval.matchCount = 5 /\ Len(retrieval.documentIds) = 2
    /\ retrieval.requested = <<3, 3>>
    /\ Len(retrieval.chunks) = 6
    /\ retrieval.result = <<<<1, 1>>, <<1, 2>>, <<1, 3>>, <<2, 1>>, <<2, 2>>>>

\* C25: a request that lacks a required field is answered 400 and leaves the job
\* row, the chunk rows and the uploaded file as they were, and triggers no worker.
C25_BadRequestChangesNothing ==
    [][(lastResp'.code = 400) =>
          UNCHANGED <<jobStatus, processing_status, embedding, blob, invoked, holders>>]_vars
\* a request rejected while the document is being processed
C25_Witness ==
    /\ lastResp.code = 400
    /\ lastResp.message = "chunkId and documentId are required."
    /\ jobStatus = "PENDING_EMBEDDING"
    /\ \E c, d \in ChunkIds : processing_status[c] = "PROCESSING" /\ invoked[d] > 0

\* C26: when the creation of a job fails (the source cannot be read, or an insert
\* throws), the job is marked FAILED if its row was written, and the chunk store
\* holds no chunk of the document.
C26_FailedCreationLeavesNothing ==
    createPc = "failed" =>
        /\ jobStatus \in {"NONE", "FAILED"}
        /\ \A c \in ChunkIds : processing_status[c] = "ABSENT"

\* chunk c is PROCESSING and no invocation holds it
Stranded(c) == processing_status[c] = "PROCESSING" /\ holders[c] = 0

\* C29 (as claimed): a chunk whose worker claimed it and stopped before writing
\* a final status stays PROCESSING: no step changes it, the progress reported
\* never reaches 100, and the job reaches no terminal stage.
C29_StrandedBelowHundred ==
    [][\A c \in ChunkIds :
          Stranded(c) =>
              /\ Stranded(c)'
              /\ jobStatus' \notin {"COMPLETED", "FAILED"}
              /\ lastResp'.progress < 100]_vars

\* C29 (amended): such a chunk stays PROCESSING: no step changes it, no status
\* response reports the document finished, and the job reaches no terminal stage.
C29_StrandedForever ==
    [][\A c \in ChunkIds :
          Stranded(c) =>
              /\ Stranded(c)'
              /\ jobStatus' \notin {"COMPLETED", "FAILED"}
              /\ ~lastResp'.isFinished /\ ~lastResp'.isReady]_vars
\* every other chunk is finished, a request for the stranded chunk has come and
\* gone, and the poll answers unfinished: at 75 of 4 chunks, at 100 of 200
C29_Witness ==
    /\ \E c \in ChunkIds :
          /\ Stranded(c) /\ invoked[c] = 0
          /\ \A d \in ChunkIds \ {c} : processing_status[d] \in {"COMPLETED", "FAILED"}
    /\ jobStatus = "PENDING_EMBEDDING"
    /\ lastResp.code = 200 /\ ~lastResp.isFinished
    /\ lastResp.progress = IF settled = 0 THEN 75 ELSE 100
\* C27: a chunk row, once inserted as PENDING, changes status only from PENDING
\* to PROCESSING (the claim, by an invocation that becomes its one holder) and
\* from PROCESSING to COMPLETED, FAILED or PENDING (by that one holder, which is
\* done with it); COMPLETED and FAILED are never left.
C27_ChunkTransitions ==
    [][\A c \in ChunkIds :
          (processing_status'[c] # processing_status[c]) =>
              \/ /\ processing_status[c] = "ABSENT"
                 /\ processing_status'[c] = "PENDING"
                 /\ createPc = "chunked"
              \/ /\ processing_status[c] = "PENDING"
                 /\ processing_status'[c] = "PROCESSING"
                 /\ holders[c] = 0 /\ holders'[c] = 1
              \/ /\ processing_status[c] = "PROCESSING"
                 /\ processing_status'[c] \in {"COMPLETED", "FAILED", "PENDING"}
                 /\ holders[c] = 1 /\ holders'[c] = 0]_vars
\* a worker has just put its chunk back to PENDING, while one chunk is claimed
\* by its holder, one is COMPLETED and one FAILED
C27_Witness ==
    /\ lastWorker.result = "requeued"
    /\ \E c \in ChunkIds : processing_status[c] = "PENDING" /\ holders[c] = 0
    /\ \E c \in ChunkIds : processing_status[c] = "PROCESSING" /\ holders[c] = 1
    /\ \E c \in ChunkIds : processing_status[c] = "COMPLETED"
    /\ \E c \in ChunkIds : processing_status[c] = "FAILED"

\* C28: a status poll starts workers only if, by the counts it read,
\* MAX_CONCURRENT_WORKERS - processing > 0 and pending > 0; it starts at most
\* MAX_CONCURRENT_WORKERS - processing of them, one each for distinct chunks that
\* are PENDING when it selects them, and none when processing >= MAX_CONCURRENT_WORKERS.
C28_DispatchWithinSlots ==
    [][LET delivered == {c \in ChunkIds : invoked'[c] > invoked[c]}
           row == counts[1]
       IN  delivered # {} =>
              /\ ppc[1] = "counted"
              /\ MAX_CONCURRENT_WORKERS - row.processing_chunks > 0
              /\ row.pending_chunks > 0
              /\ Cardinality(delivered) <= MAX_CONCURRENT_WORKERS - row.processing_chunks
              /\ \A c \in delivered :
                    /\ invoked'[c] = invoked[c] + 1
                    /\ processing_status[c] = "PENDING"]_vars
\* with one chunk PROCESSING and three PENDING, the poll has just started
\* workers for two of the three and answered
C28_Witness ==
    /\ lastResp.code = 200 /\ lastResp.message = "Generating Embeddings..."
    /\ Cardinality(WithStatus("PROCESSING")) = 1
    /\ Cardinality(WithStatus("PENDING")) = 3
    /\ Cardinality({c \in WithStatus("PENDING") : invoked[c] = 1}) = 2
    /\ \A c \in WithStatus("PROCESSING") : invoked[c] = 0 /\ holders[c] = 1

\* C30: while the stored stage of a job is COMPLETED every chunk of its document
\* is COMPLETED, and while it is FAILED every chunk is COMPLETED or FAILED and
\* some chunk is FAILED, with any number of polls and workers running at once.
C30_StageMatchesChunks ==
    /\ jobStatus = "COMPLETED" =>
          \A c \in ChunkIds : processing_status[c] \in {"ABSENT", "COMPLETED"}
    /\ jobStatus = "FAILED" =>
          /\ \A c \in ChunkIds : processing_status[c] \in {"ABSENT", "COMPLETED", "FAILED"}
          /\ \E c \in ChunkIds : processing_status[c] = "FAILED"
\* a job of MaxChunks chunks is stored FAILED with one chunk FAILED and the
\* others COMPLETED, while another poll that has read its counts is still running
C30_Witness ==
    /\ jobStatus = "FAILED" /\ nChunks = MaxChunks
    /\ Cardinality(WithStatus("FAILED")) = 1
    /\ Cardinality(WithStatus("COMPLETED")) = MaxChunks - 1
    /\ \E p \in Pollers : ppc[p] = "counted"

\* C31: a process-chunk invocation for a chunk that is PROCESSING, COMPLETED or
\* FAILED changes neither the chunk's status nor its embedding, makes no provider
\* call and answers 200; the chunk is as it was for the next invocation too.
C31_NotPendingIsNoOp ==
    [][\A c \in ChunkIds :
          (/\ invoked'[c] < invoked[c]
           /\ processing_status[c] \in {"PROCESSING", "COMPLETED", "FAILED"}) =>
              /\ processing_status'[c] = processing_status[c]
              /\ embedding'[c] = embedding[c]
              /\ ~ClaimMatches(c)'
              /\ lastWorker' = ClaimAnswer(c)
              /\ lastWorker'.code = 200 /\ lastWorker'.calls = 0]_vars
\* the only chunk of a document is COMPLETED with its embedding, and a further
\* invocation for it has just answered 200 without doing anything
C31_Witness ==
    /\ nChunks = 1
    /\ processing_status[1] = "COMPLETED" /\ embedding[1] = "vector"
    /\ lastWorker.result = "noop" /\ lastWorker.code = 200 /\ lastWorker.calls = 0

C33_ShortWaitRetried ==
    retrier.pc = "returned" =>
        \A j \in 1..retrier.calls :
            LET error == retrier.outs[j]
                w == apiWaitTime(error)
                requeued == retrier.kind = "cooldown" /\ retrier.calls = j
            IN  (~error.ok /\ isRateLimitError(error)) =>
                    IF w # -1
                    THEN /\ requeued <=> (w + 500 > 5000)
                         /\ requeued => Len(retrier.sleeps) = j - 1
                         /\ ~requeued =>
                               /\ retrier.calls > j
                               /\ retrier.sleeps[j] = w + 500
                    ELSE /\ ~requeued
                         /\ j < retrier.calls => retrier.sleeps[j] = 1000 * Pow2(j - 1)

C35_PollWritesNoChunk ==
    [][/\ \A p \in Pollers :
            (ppc'[p] # ppc[p]) =>
                /\ UNCHANGED <<processing_status, embedding, holders>>
                /\ \A q \in Pollers \ {p} : ppc'[q] = ppc[q] /\ counts'[q] = counts[q]
                /\ (ppc'[p] = "counted") => counts'[p] = get_document_processing_status
                /\ (ppc[p] # "counted") => invoked' = invoked
                /\ \A c \in ChunkIds :
                      (invoked'[c] # invoked[c]) =>
                          /\ processing_status[c] = "PENDING"
                          /\ HasCapacity(counts[p])
                /\ (jobStatus' # jobStatus) =>
                      /\ jobStatus = "PENDING_EMBEDDING"
                      /\ LET row == IF ppc[p] = "counted" THEN counts[p]
                                    ELSE get_document_processing_status
                         IN  isFinished(row) /\ jobStatus' = finalStatus(row)
       /\ (processing_status' # processing_status \/ embedding' # embedding) =>
             \/ createPc = "chunked" /\ insertIdx' # insertIdx
             \/ \E c \in ChunkIds : holders'[c] # holders[c]]_vars
\* one poll was abandoned after it read the counts of a document whose chunks
\* were all PENDING; the polls after it drove the document to COMPLETED
C35_Witness ==
    /\ nChunks = MaxChunks
    /\ ppc[1] = "counted" /\ counts[1].pending_chunks = MaxChunks
    /\ ppc[2] = "idle"
    /\ jobStatus = "COMPLETED"
    /\ \A c \in ChunkIds : processing_status[c] = "COMPLETED" /\ embedding[c] = "vector"

\* the chain of workers is over: the document was accepted and no trigger
\* request is waiting for its worker
ChainOver == createPc = "done" /\ \A c \in ChunkIds : invoked[c] = 0

\* C36: with chained workers at most one trigger request is outstanding, for an
\* index whose chunk is PENDING and whose earlier chunks are all COMPLETED; no
\* request is outstanding for an index after a FAILED chunk; and once the chain
\* is over every chunk of the document is COMPLETED or FAILED, so that the
\* status poll reports it finished.
C36_ChainFinishesDocument ==
    /\ \A c \in ChunkIds :
          invoked[c] > 0 =>
              /\ invoked[c] = 1 /\ processing_status[c] = "PENDING"
              /\ \A d \in ChunkIds : d < c => processing_status[d] = "COMPLETED"
              /\ \A d \in ChunkIds : d # c => invoked[d] = 0
    /\ \A c \in ChunkIds :
          processing_status[c] = "FAILED" => \A d \in ChunkIds : d > c => invoked[d] = 0
    /\ ChainOver => \A c \in ChunkIds : processing_status[c] \in {"ABSENT", "COMPLETED", "FAILED"}

\* a step in which handleBatch takes up a request: the cache and the job stay
\* as they are
BatchTakenUp ==
    /\ batchJob.pc \in {"idle", "answered"}
    /\ batchJob' # batchJob
    /\ batchJob'.jobCache = batchJob.jobCache /\ batchJob'.started = batchJob.started

\* C37: handleBatch stores rows only in the step that follows the embedding of
\* every chunk of the slice, then stores one row for each chunk of the slice
\* and answers 200; a request with jobId, startIndex and batchSize is answered
\* 404 when its job is not in the cache (never stored, finished or expired)
\* and 200 when its slice is empty; and whenever the answer is not 200 the rows
\* are as they were when the request arrived.
C37_BatchAllOrNothing ==
    [][LET batch == {i \in 1..MaxJobChunks :
                        /\ i <= batchJob.chunks
                        /\ batchJob.startIndex < i
                        /\ i <= batchJob.startIndex + batchJob.batchSize}
           wellFormed == /\ batchJob'.jobId # 0 /\ batchJob'.hasStartIndex
                         /\ batchJob'.batchSize # 0
       IN  /\ (batchJob'.rows # batchJob.rows) =>
                 /\ batchJob.pc = "inserting" /\ batchJob.embedded = batch
                 /\ \A i \in 1..MaxJobChunks :
                       batchJob'.rows[i] = batchJob.rows[i] + (IF i \in batch THEN 1 ELSE 0)
                 /\ batchJob'.pc = "answered" /\ batchJob'.code = 200
           /\ (BatchTakenUp /\ wellFormed /\ batchJob'.jobId \notin batchJob.jobCache) =>
                 batchJob'.pc = "answered" /\ batchJob'.code = 404
           /\ (/\ BatchTakenUp /\ wellFormed /\ batchJob'.jobId \in batchJob.jobCache
               /\ batchJob'.startIndex >= batchJob.chunks) =>
                 batchJob'.pc = "answered" /\ batchJob'.code = 200
           /\ (batchJob'.pc = "answered" /\ batchJob'.code # 200) =>
                 batchJob'.rows = batchJob'.before]_vars
\* the second batch of a job of three chunks: the first batch was stored, then
\* one of the two embeddings of the second failed; the answer is 500 and no
\* row of the second batch is stored
C37_Witness ==
    /\ batchJob.pc = "answered" /\ batchJob.code = 500
    /\ batchJob.chunks = 3 /\ batchJob.startIndex = 1 /\ batchJob.batchSize = 2
    /\ Cardinality(batchJob.embedded) = 1
    /\ batchJob.rows = [i \in 1..MaxJobChunks |-> IF i = 1 THEN 1 ELSE 0]

\* the initialisations in flight, and those that ended well
InFlight == {g \in 1..Len(embedder.promises) : embedder.promises[g] = "pending"}
Initialised == {g \in 1..Len(embedder.promises) : embedder.promises[g] = "resolved"}

\* C39: at most one initialisation of the pipeline is in flight and at most
\* one ever succeeds; the stored promise is the one in flight or the one that
\* succeeded; a call made while one is in flight, or after one succeeded,
\* starts none and waits for the stored promise; a failed initialisation
\* leaves null stored, and a call that finds null starts a fresh one.
C39_InitialisedOnce ==
    [][/\ Cardinality(InFlight) <= 1 /\ Cardinality(Initialised) <= 1
       /\ InFlight \cup Initialised =
             IF embedder.pipelinePromise = 0 THEN {} ELSE {embedder.pipelinePromise}
       /\ \A c \in Callers :
             (embedder.awaiting[c] = 0 /\ embedder'.awaiting[c] # 0) =>
                 /\ (InFlight \cup Initialised # {}) =>
                       /\ embedder'.promises = embedder.promises
                       /\ embedder'.awaiting[c] \in InFlight \cup Initialised
                 /\ (InFlight \cup Initialised = {}) =>
                       /\ Len(embedder'.promises) = Len(embedder.promises) + 1
                       /\ embedder'.awaiting[c] = Len(embedder'.promises)
                       /\ embedder'.promises[embedder'.awaiting[c]] = "pending"
       /\ \A g \in InFlight :
             (embedder'.promises[g] = "rejected") => embedder'.pipelinePromise = 0]_vars
\* the first initialisation failed while both callers waited for it, the
\* second one succeeded and gave the second caller its vector
C39_Witness ==
    /\ embedder.promises = <<"rejected", "resolved">>
    /\ embedder.pipelinePromise = 2
    /\ embedder.result[1] = "error" /\ embedder.result[2] = "vector"

\* the vectors assigned to cluster c (counted from 0) by the assignments a
MembersOf(a, c) == {i \in 1..Len(a) : a[i] = c}
\* the sum of the vectors at the positions S
RECURSIVE SumOf(_, _)
SumOf(vectors, S) ==
    IF S = {} THEN 0
    ELSE LET i == CHOOSE j \in S : TRUE IN vectors[i] + SumOf(vectors, S \ {i})

\* C38: kMeansClustering with 0 < k < n makes at most maxIterations rounds of
\* assignment; a round after which the loop goes on produced assignments that
\* differ from the previous ones, and after it a cluster without members has
\* the centroid it had and a cluster with members the mean of its members; the
\* loop is left after a round that repeats the assignments or when
\* maxIterations rounds are made; the result is the last assignment vector
\* kept, of length n with entries in 0..k-1.
C38_RoundsCapped ==
    [][LET n == Len(kmeans.vectors)
           k == kmeans.k
       IN  (kmeans.pc = "loop" /\ kmeans' # kmeans) =>
             /\ 0 < k /\ k < n
             /\ kmeans.rounds < kmeans.maxIterations \/ kmeans'.pc = "returned"
             /\ kmeans'.rounds <= kmeans.maxIterations
             /\ (kmeans'.pc = "loop") =>
                   /\ kmeans'.rounds = kmeans.rounds + 1
                   /\ kmeans'.assignments # kmeans.assignments
                   /\ \A c \in 1..k :
                         LET members == MembersOf(kmeans'.assignments, c - 1)
                         IN  IF members = {}
                                 THEN kmeans'.centroids[c] = kmeans.centroids[c]
                                 ELSE /\ kmeans'.centroids[c].n = Cardinality(members)
                                      /\ kmeans'.centroids[c].s = SumOf(kmeans.vectors, members)
             /\ (kmeans'.pc = "returned") =>
                   /\ \/ kmeans'.rounds = kmeans.rounds + 1
                      \/ kmeans'.rounds = kmeans.rounds /\ kmeans.rounds = kmeans.maxIterations
                   /\ kmeans'.result = kmeans.assignments
                   /\ Len(kmeans'.result) = n
                   /\ \A i \in 1..n : kmeans'.result[i] \in 0..(k - 1)]_vars
\* a call with the default maxIterations that made two rounds, the second one
\* repeating the assignments of the first, in which a cluster had no members
C38_Witness ==
    /\ kmeans.pc = "returned" /\ kmeans.maxIterations = 10
    /\ 0 < kmeans.k /\ kmeans.k < Len(kmeans.vectors)
    /\ kmeans.rounds = 2
    /\ \E c \in 0..(kmeans.k - 1) : MembersOf(kmeans.result, c) = {}

====
